---------------------------- MODULE Spec2Model ----------------------------
(***************************************************************************)
(* Model of the beat-sync-tester analysis core: EnergyAnalyzer,            *)
(* DrumAnalyzer, SectionAnalyzer, the beat-detection worker and the        *)
(* BeatDetectionService that drives it.                                    *)
(*                                                                         *)
(* Units.  Times are integers counted in units of 1/UPS second (0.05 s),   *)
(* so that the 10 Hz envelope grid (2 units per sample) and off-grid times *)
(* are both representable.  Energies are rationals <<num, den>>, den > 0,  *)
(* counted in units of 1/EScale (0.05); envelope samples are integers in   *)
(* 0..EScale.  JavaScript number rounding is not modelled: arithmetic is   *)
(* exact.                                                                  *)
(***************************************************************************)
EXTENDS Integers, Sequences, FiniteSets, TLC

VARIABLES
    \* ---- SectionAnalyzer call: analyzeSections / detectPhraseBoundaries
    energyCurve,      \* Float32Array energy curve, samples in 0..EScale
    barTimes,         \* number[] bar timestamps (time units)
    audioDuration,    \* number, time units
    sections,         \* MusicSection[] returned by analyzeSections
    sectionPc,        \* "input" | "done"
    boundariesBuilt,  \* analyzeSections' boundaries once duration is in them
    sortedBoundaries, \* analyzeSections' boundaries when sections are built
    \* ---- calls of SectionAnalyzer's helper functions
    fnName,           \* the function called, or "none"
    fnArgs,           \* its arguments
    fnResult,         \* the value returned, or <<>> before the call
    fnPc,             \* "input" | "done"
    \* ---- getAverageEnergy call
    avgCurve,         \* the energy curve argument
    avgTime,          \* the time t of getAverageEnergy(env, t, t)
    avgResult,        \* returned energy, or <<>> before the call
    avgPc,            \* "input" | "done"
    \* ---- detectPhraseBoundaries call
    phraseBarTimes,   \* number[] argument
    phraseSections,   \* MusicSection[] argument
    phraseBoundaries, \* number[] returned
    phrasePc,         \* "input" | "done"
    \* ---- analyzeEnergy call
    leadSilence,      \* number of zero samples that start the Float32Array
    audioData,        \* its samples after them (integer amplitudes)
    sampleRate,       \* number
    envelope,         \* Float32Array returned (rationals), or <<>>
    energyPc,         \* "input" | "done"
    \* ---- detectOnsets calls of analyzeDrums
    frameEnergy,      \* per band: the per-frame energies
    drumSampleRate,   \* sampleRate argument of analyzeDrums
    drumPattern,      \* DrumPattern returned (times per band, patternLength)
    drumPc,           \* "input" | "done"
    \* ---- computeMagnitudeSpectrum call
    fftFrame,         \* Float32Array samples argument (integer amplitudes)
    fftMags,          \* magnitudes the floating-point butterflies produce
    spectrum,         \* Float32Array returned, in 1/RmsScale, or <<>>
    fftPc,            \* "input" | "done" | "threw"
    \* ---- worker: tempo / barTimes derivation
    beatTimes,        \* number[] from the beat tracker (time units)
    beatResult,       \* [tempo, barTimes, barCount, beatCount] or <<>>
    beatPc,           \* "input" | "done"
    \* ---- BeatDetectionService + worker
    callPc,           \* per run: position of the service call
    failAt,           \* per run: the worker stage that throws, or "none"
    sink,             \* per run: progress values delivered to onProgress
    resolvedWith,     \* per run: the run whose audio the resolved data is from
    settleCount,      \* per run: calls of the promise's resolve and reject
    msgListeners,     \* 'message' listeners registered on the worker
    errListeners,     \* 'error' listeners registered on the worker
    workerState,      \* this.worker: "none" | "created" | "failed"
    inbox,            \* messages posted to the worker, not yet handled
    wpc,              \* per run: position of the worker's onmessage handler
    importing,        \* runs awaiting the dynamic imports, in call order
    jobs,             \* worker's promise-job (microtask) queue
    isInitialized,    \* worker global
    pipelineOutcome,  \* per run: "none" | "ok" | "threw"
    posted,           \* per run: types of the messages the worker posted
    outbox,           \* worker -> main messages not yet dispatched
    \* ---- useBeatCorrections
    corrections,      \* the hook's state: records [time, id], time in 1/100 s
    idsMade,          \* number of ids that generateId has returned
    corrOp,           \* the last operation called on the hook
    corrArg,          \* its arguments
    corrPrev,         \* the corrections before it
    \* ---- App
    audioUrl,         \* the selected source (NoSource for null)
    audioFileName,    \* name of the selected file (NoSource for null)
    customUrl,        \* content of the URL input (NoSource when empty)
    analysis,         \* null (NoSource) or a result, named by the source analysed
    isAnalyzing,
    analysisProgress,
    analysisError,    \* null ("") or the message
    currentTime,
    isPlaying,
    pendingRun,       \* the source of the analyzeBeatsEnhanced call awaited
    blobsMade         \* number of object URLs created

helperVars  == <<fnName, fnArgs, fnResult, fnPc>>
sectionVars == <<energyCurve, barTimes, audioDuration, sections, sectionPc,
                 boundariesBuilt, sortedBoundaries, helperVars>>
avgVars     == <<avgCurve, avgTime, avgResult, avgPc>>
phraseVars  == <<phraseBarTimes, phraseSections, phraseBoundaries, phrasePc>>
energyVars  == <<leadSilence, audioData, sampleRate, envelope, energyPc>>
fftVars     == <<fftFrame, fftMags, spectrum, fftPc>>
drumVars    == <<frameEnergy, drumSampleRate, drumPattern, drumPc, fftVars>>
beatVars    == <<beatTimes, beatResult, beatPc>>
serviceVars == <<callPc, failAt, sink, resolvedWith, settleCount, msgListeners,
                 errListeners, workerState, inbox, wpc, importing, jobs,
                 isInitialized, pipelineOutcome, posted, outbox>>
corrVars    == <<corrections, idsMade, corrOp, corrArg, corrPrev>>
appVars     == <<audioUrl, audioFileName, customUrl, analysis, isAnalyzing,
                 analysisProgress, analysisError, currentTime, isPlaying,
                 pendingRun, blobsMade>>
uiVars      == <<corrVars, appVars>>
vars == <<sectionVars, avgVars, phraseVars, energyVars, drumVars, beatVars,
          serviceVars, uiVars>>

-----------------------------------------------------------------------------
(* Units and rational arithmetic *)

\* EnergyAnalyzer.ts:13  const OUTPUT_SAMPLE_RATE = 10
OUTPUT_SAMPLE_RATE == 10

\* time units per second: two per envelope sample
UPS == 2 * OUTPUT_SAMPLE_RATE

\* time units per envelope sample
UnitsPerSample == UPS \div OUTPUT_SAMPLE_RATE

\* energy units per 1.0
EScale == 2 * 10

Abs(x) == IF x < 0 THEN -x ELSE x
Min(a, b) == IF a < b THEN a ELSE b
Max(a, b) == IF a > b THEN a ELSE b

\* Math.floor(t * OUTPUT_SAMPLE_RATE) and Math.ceil(t * OUTPUT_SAMPLE_RATE)
\* for a time t >= 0 given in time units
FloorIndex(t) == t \div UnitsPerSample
CeilIndex(t) == (t + UnitsPerSample - 1) \div UnitsPerSample

RECURSIVE GCD(_, _)
GCD(a, b) == IF b = 0 THEN a ELSE GCD(b, a % b)

\* rationals <<n, d>> with d > 0, kept in lowest terms
Rat(n, d) ==
    LET g == GCD(Abs(n), d)
    IN  <<n \div g, d \div g>>
RLt(a, b) == a[1] * b[2] < b[1] * a[2]
RLe(a, b) == a[1] * b[2] <= b[1] * a[2]
REq(a, b) == a[1] * b[2] = b[1] * a[2]
RSub(a, b) == Rat(a[1] * b[2] - b[1] * a[2], a[2] * b[2])
RHalfSum(a, b) == Rat(a[1] * b[2] + b[1] * a[2], 2 * a[2] * b[2])

\* 0-based element access of a JavaScript array modelled as a sequence
At(arr, i) == arr[i + 1]

RECURSIVE SumRange(_, _, _)
\* sum of arr[from .. to-1] (0-based, to exclusive): the accumulation loops
\* "for (i = from; i < to; i++) sum += arr[i]".  Addition is exact here, so
\* the range is split in halves to keep the evaluation depth logarithmic.
SumRange(arr, from, to) ==
    IF from >= to THEN 0
    ELSE IF to - from = 1 THEN At(arr, from)
    ELSE LET mid == (from + to) \div 2
         IN  SumRange(arr, from, mid) + SumRange(arr, mid, to)

RECURSIVE InsertSorted(_, _)
InsertSorted(s, x) ==
    IF s = <<>> THEN <<x>>
    ELSE IF x < Head(s) THEN <<x>> \o s
    ELSE <<Head(s)>> \o InsertSorted(Tail(s), x)

RECURSIVE SortAsc(_)
\* Array.prototype.sort((a, b) => a - b) on numbers
SortAsc(s) ==
    IF s = <<>> THEN <<>>
    ELSE InsertSorted(SortAsc(SubSeq(s, 1, Len(s) - 1)), s[Len(s)])

IsAscending(s) == \A i \in 1..(Len(s) - 1) : s[i] <= s[i + 1]
IsStrictlyIncreasing(s) == \A i \in 1..(Len(s) - 1) : s[i] < s[i + 1]

-----------------------------------------------------------------------------
(* EnergyAnalyzer: getAverageEnergy, detectEnergyChanges *)

\* getAverageEnergy rounding the end index down instead of up
getAverageEnergyFloorBoth(curve, startTime, endTime) ==
    LET startIndex == FloorIndex(startTime)
        endIndex == Min(FloorIndex(endTime), Len(curve))
    IN  IF startIndex >= endIndex THEN Rat(0, 1)
        ELSE Rat(SumRange(curve, startIndex, endIndex), endIndex - startIndex)

\* EnergyAnalyzer.ts:109-125
getAverageEnergy(curve, startTime, endTime) ==
    LET startIndex == FloorIndex(startTime)
        endIndex == Min(CeilIndex(endTime), Len(curve))
    IN  IF startIndex >= endIndex THEN Rat(0, 1)
        ELSE Rat(SumRange(curve, startIndex, endIndex), endIndex - startIndex)

\* EnergyAnalyzer.ts:142  const lookWindow = OUTPUT_SAMPLE_RATE
lookWindow == OUTPUT_SAMPLE_RATE

\* the loop body without the test on the last emitted change
detectEnergyChangesStepNoGap(curve, threshold, i, changes) ==
    LET delta == SumRange(curve, i, i + lookWindow) - SumRange(curve, i - lookWindow, i)
    IN  IF Abs(delta) >= threshold * lookWindow
        THEN Append(changes, [time |-> i * UnitsPerSample, delta |-> delta])
        ELSE changes

\* EnergyAnalyzer.ts:145-167, the loop body at index i.  threshold is in
\* energy units; delta is kept as afterSum - beforeSum, i.e. times lookWindow.
detectEnergyChangesStep(curve, threshold, i, changes) ==
    LET beforeSum == SumRange(curve, i - lookWindow, i)
        afterSum == SumRange(curve, i, i + lookWindow)
        delta == afterSum - beforeSum
        time == i * UnitsPerSample
    IN  IF /\ Abs(delta) >= threshold * lookWindow
           /\ \/ changes = <<>>
              \/ time - changes[Len(changes)].time >= 1 * UPS
        THEN Append(changes, [time |-> time, delta |-> delta])
        ELSE changes

RECURSIVE detectEnergyChangesLoop(_, _, _, _, _)
\* EnergyAnalyzer.ts:144  for (i = from; i < to; i++): the body is applied
\* to i = from, from+1, ..., to-1 in that order, threading `changes`.  The
\* index range is halved (first half run to completion, then the second)
\* only to keep the evaluation depth logarithmic in the curve length.
detectEnergyChangesLoop(curve, threshold, from, to, changes) ==
    IF from >= to THEN changes
    ELSE IF to - from = 1
         THEN detectEnergyChangesStep(curve, threshold, from, changes)
    ELSE LET mid == (from + to) \div 2
             firstHalf == detectEnergyChangesLoop(curve, threshold, from, mid, changes)
         IN  IF Len(firstHalf) >= 0
             THEN detectEnergyChangesLoop(curve, threshold, mid, to, firstHalf)
             ELSE firstHalf

\* EnergyAnalyzer.ts:135-171
detectEnergyChanges(curve, threshold) ==
    detectEnergyChangesLoop(curve, threshold, lookWindow,
                            Len(curve) - lookWindow, <<>>)

-----------------------------------------------------------------------------
(* SectionAnalyzer (src/unnamed/part_001) *)

\* part_001:22  const MIN_SECTION_DURATION = 4.0 (seconds)
MIN_SECTION_DURATION == 4 * UPS

\* part_001:27  ENERGY_THRESHOLDS.HIGH = 0.7
HIGH == Rat(7 * EScale, 10)

\* part_001:29  ENERGY_THRESHOLDS.MEDIUM = 0.4
MEDIUM == Rat(4 * EScale, 10)

\* part_001:34  const EDGE_SECTION_THRESHOLD = 15 (seconds)
EDGE_SECTION_THRESHOLD == 15 * UPS

\* types/index.ts:30  MusicSection['type']
SectionTypes ==
    {"intro", "verse", "chorus", "drop", "breakdown", "outro", "unknown"}

\* classifySection with the medium-energy rule tried before the position rules
classifySectionVerseFirst(energy, startTime, endTime, totalDuration, energyChange) ==
    IF RLe(MEDIUM, energy) /\ RLt(energy, HIGH) THEN "verse"
    ELSE IF startTime < EDGE_SECTION_THRESHOLD /\ RLt(energy, HIGH) THEN "intro"
    ELSE IF /\ endTime > totalDuration - EDGE_SECTION_THRESHOLD
            /\ RLt(energy, HIGH) THEN "outro"
    ELSE IF RLe(HIGH, energy)
         THEN IF RLt(Rat(25 * EScale, 100), energyChange) THEN "drop"
              ELSE "chorus"
    ELSE IF RLt(energyChange, Rat(-2 * EScale, 10)) THEN "breakdown"
    ELSE "unknown"

\* part_001:44-83
classifySection(energy, startTime, endTime, totalDuration, energyChange) ==
    IF startTime < EDGE_SECTION_THRESHOLD /\ RLt(energy, HIGH) THEN "intro"
    ELSE IF /\ endTime > totalDuration - EDGE_SECTION_THRESHOLD
            /\ RLt(energy, HIGH) THEN "outro"
    ELSE IF RLe(HIGH, energy)
         THEN IF RLt(Rat(25 * EScale, 100), energyChange) THEN "drop"
              ELSE "chorus"
    ELSE IF RLe(MEDIUM, energy) THEN "verse"
    ELSE IF RLt(energyChange, Rat(-2 * EScale, 10)) THEN "breakdown"
    ELSE "unknown"

RECURSIVE mergeSectionsLoop(_, _, _, _)
\* part_001:94-107, the loop from index i (0-based) on
mergeSectionsLoop(secs, i, current, merged) ==
    IF i >= Len(secs) THEN Append(merged, current)
    ELSE LET next == At(secs, i)
         IN  IF next.type = current.type
             THEN mergeSectionsLoop(secs, i + 1,
                      [current EXCEPT !.endTime = next.endTime,
                                      !.energy = RHalfSum(current.energy, next.energy)],
                      merged)
             ELSE mergeSectionsLoop(secs, i + 1, next, Append(merged, current))

RECURSIVE mergeSectionsKeepEndLoop(_, _, _, _)
mergeSectionsKeepEndLoop(secs, i, current, merged) ==
    IF i >= Len(secs) THEN Append(merged, current)
    ELSE LET next == At(secs, i)
         IN  IF next.type = current.type
             THEN mergeSectionsKeepEndLoop(secs, i + 1,
                      [current EXCEPT !.energy = RHalfSum(current.energy, next.energy)],
                      merged)
             ELSE mergeSectionsKeepEndLoop(secs, i + 1, next, Append(merged, current))

\* mergeSections that forgets to extend the merged section's endTime
mergeSectionsKeepEnd(secs) ==
    IF Len(secs) <= 1 THEN secs
    ELSE mergeSectionsKeepEndLoop(secs, 1, At(secs, 0), <<>>)

\* part_001:88-111
mergeSections(secs) ==
    IF Len(secs) <= 1 THEN secs
    ELSE mergeSectionsLoop(secs, 1, At(secs, 0), <<>>)

RECURSIVE snapToNearestBarLoopLastTie(_, _, _, _, _)
\* the loop with diff <= minDiff: a later bar at the same distance wins
snapToNearestBarLoopLastTie(time, bars, i, nearestBar, minDiff) ==
    IF i >= Len(bars) THEN nearestBar
    ELSE LET barTime == At(bars, i)
             diff == Abs(time - barTime)
             nearer == diff <= minDiff
             nb == IF nearer THEN barTime ELSE nearestBar
             md == IF nearer THEN diff ELSE minDiff
         IN  IF barTime > time + 2 * UPS THEN nb
             ELSE snapToNearestBarLoopLastTie(time, bars, i + 1, nb, md)

RECURSIVE snapToNearestBarLoop(_, _, _, _, _)
\* part_001:214-222, the for-of loop from index i (0-based) on
snapToNearestBarLoop(time, bars, i, nearestBar, minDiff) ==
    IF i >= Len(bars) THEN nearestBar
    ELSE LET barTime == At(bars, i)
             diff == Abs(time - barTime)
             nearer == diff < minDiff
             nb == IF nearer THEN barTime ELSE nearestBar
             md == IF nearer THEN diff ELSE minDiff
         IN  IF barTime > time + 2 * UPS THEN nb
             ELSE snapToNearestBarLoop(time, bars, i + 1, nb, md)

\* part_001:208-225
snapToNearestBar(time, bars) ==
    IF Len(bars) = 0 THEN time
    ELSE snapToNearestBarLoop(time, bars, 0, At(bars, 0),
                              Abs(time - At(bars, 0)))

RECURSIVE changeBoundariesNoGap(_, _, _, _)
\* changeBoundaries without the MIN_SECTION_DURATION test
changeBoundariesNoGap(changes, bars, i, boundaries) ==
    IF i >= Len(changes) THEN boundaries
    ELSE changeBoundariesNoGap(changes, bars, i + 1,
             Append(boundaries, snapToNearestBar(At(changes, i).time, bars)))

RECURSIVE changeBoundaries(_, _, _, _)
\* part_001:143-149, the loop over energyChanges from index i (0-based) on
changeBoundaries(changes, bars, i, boundaries) ==
    IF i >= Len(changes) THEN boundaries
    ELSE LET snappedTime == snapToNearestBar(At(changes, i).time, bars)
         IN  changeBoundaries(changes, bars, i + 1,
                 IF snappedTime - boundaries[Len(boundaries)] >= MIN_SECTION_DURATION
                 THEN Append(boundaries, snappedTime)
                 ELSE boundaries)

\* part_001:152-158
endBoundaries(boundaries, duration) ==
    IF duration - boundaries[Len(boundaries)] >= MIN_SECTION_DURATION
    THEN Append(boundaries, duration)
    ELSE IF Len(boundaries) > 1
         THEN [boundaries EXCEPT ![Len(boundaries)] = duration]
    ELSE Append(boundaries, duration)

\* part_001:163  const barsPerSection = 8
barsPerSection == 8

RECURSIVE barFallbackLoop(_, _, _)
\* part_001:164-170, the loop from bar index i on
barFallbackLoop(bars, i, boundaries) ==
    IF i >= Len(bars) THEN boundaries
    ELSE LET barTime == At(bars, i)
         IN  barFallbackLoop(bars, i + barsPerSection,
                 IF /\ barTime > At(boundaries, 0) + MIN_SECTION_DURATION
                    /\ barTime < At(boundaries, 1) - MIN_SECTION_DURATION
                 THEN Append(boundaries, barTime)
                 ELSE boundaries)

\* part_001:161-172
barFallback(boundaries, bars) ==
    IF Len(boundaries) = 2 /\ Len(bars) > 0
    THEN SortAsc(barFallbackLoop(bars, barsPerSection, boundaries))
    ELSE boundaries

\* part_001:137-158: the boundary list once it ends at the duration
builtBoundaries(curve, bars, duration) ==
    LET energyChanges == detectEnergyChanges(curve, (15 * EScale) \div 100)
        fromChanges == changeBoundaries(energyChanges, bars, 0, <<0>>)
    IN  endBoundaries(fromChanges, duration)

\* part_001:137-172: the boundary list analyzeSections builds for a
\* non-empty energy curve
sectionBoundaries(curve, bars, duration) ==
    barFallback(builtBoundaries(curve, bars, duration), bars)

\* part_001:177-199, one iteration of the section-building loop
sectionAt(curve, boundaries, i, duration) ==
    LET startTime == At(boundaries, i)
        endTime == At(boundaries, i + 1)
        energy == getAverageEnergy(curve, startTime, endTime)
        prevEnergy == IF i > 0
                      THEN getAverageEnergy(curve, At(boundaries, i - 1), startTime)
                      ELSE energy
        energyChange == RSub(energy, prevEnergy)
    IN  [type |-> classifySection(energy, startTime, endTime, duration, energyChange),
         startTime |-> startTime,
         endTime |-> endTime,
         energy |-> energy]

\* part_001:174-202, the merged sections of a boundary list
sectionsOf(curve, boundaries, duration) ==
    mergeSections([i \in 1..(Len(boundaries) - 1) |->
                      sectionAt(curve, boundaries, i - 1, duration)])

\* analyzeSections without the fallback for an empty curve
analyzeSectionsNoFallback(curve, bars, duration) ==
    sectionsOf(curve, sectionBoundaries(curve, bars, duration), duration)

\* part_001:121-203
analyzeSections(curve, bars, duration) ==
    IF Len(curve) = 0
    THEN <<[type |-> "unknown", startTime |-> 0, endTime |-> duration,
            energy |-> Rat(EScale, 2)]>>
    ELSE sectionsOf(curve, sectionBoundaries(curve, bars, duration), duration)

RECURSIVE sectionStartsAll(_, _, _)
\* sectionStarts without the phrases.includes() test
sectionStartsAll(secs, i, phrases) ==
    IF i >= Len(secs) THEN phrases
    ELSE sectionStartsAll(secs, i + 1, Append(phrases, At(secs, i).startTime))

RECURSIVE sectionStarts(_, _, _)
\* part_001:242-246, the loop over sections from index i (0-based) on
sectionStarts(secs, i, phrases) ==
    IF i >= Len(secs) THEN phrases
    ELSE sectionStarts(secs, i + 1,
             IF \E k \in 1..Len(phrases) : phrases[k] = At(secs, i).startTime
             THEN phrases
             ELSE Append(phrases, At(secs, i).startTime))

\* part_001:249  const BARS_PER_PHRASE = 4
BARS_PER_PHRASE == 4

RECURSIVE phraseBarsEveryBar(_, _, _)
\* the loop over every bar instead of every 4th
phraseBarsEveryBar(bars, i, phrases) ==
    IF i >= Len(bars) THEN phrases
    ELSE LET barTime == At(bars, i)
             tooClose == \E k \in 1..Len(phrases) :
                             Abs(phrases[k] - barTime) < 2 * UPS
         IN  phraseBarsEveryBar(bars, i + 1,
                 IF ~tooClose THEN Append(phrases, barTime) ELSE phrases)

RECURSIVE phraseBars(_, _, _)
\* part_001:250-258, the loop over every 4th bar from index i on
phraseBars(bars, i, phrases) ==
    IF i >= Len(bars) THEN phrases
    ELSE LET barTime == At(bars, i)
             minDistance == 2 * UPS
             tooClose == \E k \in 1..Len(phrases) :
                             Abs(phrases[k] - barTime) < minDistance
         IN  phraseBars(bars, i + BARS_PER_PHRASE,
                 IF ~tooClose THEN Append(phrases, barTime) ELSE phrases)

\* part_001:235-262
detectPhraseBoundaries(bars, secs) ==
    SortAsc(phraseBars(bars, 0, sectionStarts(secs, 0, <<>>)))

-----------------------------------------------------------------------------
(* Idle values of each group of variables, for the specifications that do  *)
(* not exercise the group                                                  *)

HelperIdle ==
    fnName = "none" /\ fnArgs = <<>> /\ fnResult = <<>> /\ fnPc = "idle"
SectionIdle ==
    /\ energyCurve = <<>> /\ barTimes = <<>> /\ audioDuration = 0
    /\ sections = <<>> /\ sectionPc = "idle"
    /\ boundariesBuilt = <<>> /\ sortedBoundaries = <<>>
    /\ HelperIdle
AvgIdle ==
    avgCurve = <<>> /\ avgTime = 0 /\ avgResult = <<>> /\ avgPc = "idle"
PhraseIdle ==
    /\ phraseBarTimes = <<>> /\ phraseSections = <<>>
    /\ phraseBoundaries = <<>> /\ phrasePc = "idle"
EnergyIdle ==
    /\ leadSilence = 0 /\ audioData = <<>> /\ sampleRate = 0
    /\ envelope = <<>> /\ energyPc = "idle"
FftIdle ==
    fftFrame = <<>> /\ fftMags = <<>> /\ spectrum = <<>> /\ fftPc = "idle"
DrumIdle ==
    /\ frameEnergy = <<>> /\ drumSampleRate = 0
    /\ drumPattern = <<>> /\ drumPc = "idle"
    /\ FftIdle
BeatIdle == beatTimes = <<>> /\ beatResult = <<>> /\ beatPc = "idle"
\* audioUrl, audioFileName, analysis and pendingRun when they are null
NoSource == 0

CorrectionsIdle ==
    /\ corrections = <<>> /\ idsMade = 0
    /\ corrOp = "none" /\ corrArg = <<>> /\ corrPrev = <<>>

AppIdle ==
    /\ audioUrl = NoSource /\ audioFileName = NoSource /\ customUrl = NoSource
    /\ analysis = NoSource /\ isAnalyzing = FALSE /\ analysisProgress = 0
    /\ analysisError = "" /\ currentTime = 0 /\ isPlaying = FALSE
    /\ pendingRun = NoSource /\ blobsMade = 0

UiIdle == CorrectionsIdle /\ AppIdle

ServiceIdle ==
    /\ callPc = <<>> /\ failAt = <<>> /\ sink = <<>>
    /\ resolvedWith = <<>> /\ msgListeners = <<>> /\ errListeners = <<>>
    /\ settleCount = <<>>
    /\ workerState = "none" /\ inbox = <<>> /\ wpc = <<>> /\ jobs = <<>>
    /\ importing = <<>>
    /\ isInitialized = FALSE /\ pipelineOutcome = <<>> /\ posted = <<>>
    /\ outbox = <<>>

-----------------------------------------------------------------------------
(* Specification SpecSections: analyzeSections on bounded inputs *)

\* number of constant blocks an input energy curve is made of
NumBlocks == 4

\* largest number of bars in an input bar grid
MaxBars == 9

\* envelope sample values used by the inputs (0.1, 0.3, 0.5, 0.8)
Levels == {2, 10, 16}
LongLevels == {2, 6, 10, 16}

\* a curve of Len(levels) blocks of blen samples each
Blocks(levels, blen) ==
    [i \in 1..(Len(levels) * blen) |-> levels[((i - 1) \div blen) + 1]]

\* input curves: none, NumBlocks blocks of 5 s, and three blocks of 16 s
\* (long enough for sections away from both edges of the track)
\* 20 s that fall from 0.85 to 0.65 at 9 s and rise to 0.9, 0.05 in 2.2 s:
\* too slowly for detectEnergyChanges
ValleyCurve == [i \in 1..200 |-> 13 + Abs(i - 91) \div 22]

SectionCurves ==
    {<<>>} \cup {Blocks(l, 50) : l \in [1..NumBlocks -> Levels]}
           \cup {Blocks(l, 160) : l \in [1..3 -> LongLevels]}
           \cup {ValleyCurve}

\* an ascending bar grid: n bars from off, step apart
Grid(off, step, n) == [i \in 1..n |-> off + (i - 1) * step]

\* the last grid has bars 0.45 s apart, up to the third 8-bar boundary
BarGrids ==
    {Grid(off, step, n) : off \in {0, 7}, step \in {18, 47}, n \in {0, MaxBars}}
        \cup {Grid(0, 9, 3 * barsPerSection + 1)}

\* durations tried with a curve: that of the pipeline (the curve has
\* ceil(10 * duration) samples), on and off the sample grid, and durations
\* that disagree with the curve length
DurationsFor(curve) ==
    LET full == Len(curve) * UnitsPerSample
    IN  {d \in {full, full - 1, full - 3 * UPS, full + 5 * UPS} : d > 0} \cup {9}

InitSections ==
    /\ energyCurve \in SectionCurves
    /\ barTimes \in BarGrids
    /\ audioDuration \in DurationsFor(energyCurve)
    /\ sections = <<>>
    /\ sectionPc = "input"
    /\ boundariesBuilt = <<>> /\ sortedBoundaries = <<>>
    /\ HelperIdle /\ AvgIdle /\ PhraseIdle /\ EnergyIdle /\ DrumIdle /\ BeatIdle /\ ServiceIdle
    /\ UiIdle

AnalyzeSections ==
    /\ sectionPc = "input"
    /\ boundariesBuilt' =
           IF Len(energyCurve) = 0 THEN <<>>
           ELSE builtBoundaries(energyCurve, barTimes, audioDuration)
    /\ sortedBoundaries' =
           IF Len(energyCurve) = 0 THEN <<>>
           ELSE barFallback(boundariesBuilt', barTimes)
    /\ sections' =
           IF Len(energyCurve) = 0
           THEN analyzeSections(energyCurve, barTimes, audioDuration)
           ELSE sectionsOf(energyCurve, sortedBoundaries', audioDuration)
    /\ sectionPc' = "done"
    /\ UNCHANGED <<energyCurve, barTimes, audioDuration, helperVars>>
    /\ UNCHANGED <<avgVars, phraseVars, energyVars, drumVars, beatVars, serviceVars, uiVars>>

NextSections == AnalyzeSections

SpecSections == InitSections /\ [][NextSections]_vars

(* C1: the list returned by analyzeSections starts at 0, is contiguous     *)
(* (each section ends where the next one starts), ends at the duration,    *)
(* and no two adjacent sections have the same type.                        *)
SectionListInvariants ==
    sectionPc = "done" =>
        /\ Len(sections) >= 1
        /\ sections[1].startTime = 0
        /\ \A i \in 1..(Len(sections) - 1) :
               sections[i].endTime = sections[i + 1].startTime
        /\ sections[Len(sections)].endTime = audioDuration
        /\ \A i \in 1..(Len(sections) - 1) :
               sections[i].type # sections[i + 1].type

\* a call that returned three or more sections after merging some intervals
SectionListWitness ==
    /\ sectionPc = "done"
    /\ Len(energyCurve) > 0
    /\ Len(sections) >= 3
    /\ Len(sections) < Len(sectionBoundaries(energyCurve, barTimes, audioDuration)) - 1

-----------------------------------------------------------------------------
(* Specification SpecScenario: analyzeSections on constant energy curves   *)
(* with no bars                                                            *)

ScenarioSeconds == {30, 120, 240}

InitScenario ==
    /\ \E secs \in ScenarioSeconds, level \in 0..EScale :
           /\ energyCurve = [i \in 1..(secs * OUTPUT_SAMPLE_RATE) |-> level]
           /\ audioDuration = secs * UPS
    /\ barTimes = <<>>
    /\ sections = <<>>
    /\ sectionPc = "input"
    /\ boundariesBuilt = <<>> /\ sortedBoundaries = <<>>
    /\ HelperIdle /\ AvgIdle /\ PhraseIdle /\ EnergyIdle /\ DrumIdle /\ BeatIdle /\ ServiceIdle
    /\ UiIdle

SpecScenario == InitScenario /\ [][NextSections]_vars

\* the 240 s track with a constant 0.5 envelope of 2400 samples and no bars
IsScenario240 ==
    /\ energyCurve = [i \in 1..2400 |-> EScale \div 2]
    /\ barTimes = <<>>
    /\ audioDuration = 240 * UPS

(* C2 as stated: for the 240 s constant-0.5 track with no bars,            *)
(* analyzeSections returns exactly one section, of type 'verse', spanning  *)
(* [0, 240] with energy 0.5.                                               *)
ScenarioIsOneVerse ==
    (sectionPc = "done" /\ IsScenario240) =>
        /\ Len(sections) = 1
        /\ sections[1].type = "verse"
        /\ sections[1].startTime = 0
        /\ sections[1].endTime = 240 * UPS
        /\ REq(sections[1].energy, Rat(EScale, 2))

(* C2 amended: for the 240 s constant-0.5 track with no bars,              *)
(* analyzeSections returns exactly one section, of type 'intro' (it starts *)
(* before 15 s with energy below 0.7), spanning [0, 240] with energy 0.5.  *)
ScenarioIsOneIntro ==
    (sectionPc = "done" /\ IsScenario240) =>
        /\ Len(sections) = 1
        /\ sections[1].type = "intro"
        /\ sections[1].startTime = 0
        /\ sections[1].endTime = 240 * UPS
        /\ REq(sections[1].energy, Rat(EScale, 2))

\* analyzeSections has returned for the 240 s scenario
ScenarioWitness == sectionPc = "done" /\ IsScenario240 /\ Len(sections) = 1

-----------------------------------------------------------------------------
(* Specification SpecAverage: getAverageEnergy(env, t, t) *)

\* longest energy curve passed to getAverageEnergy
MaxCurveLen == 3

RECURSIVE SeqsUpTo(_, _)
\* all sequences over S of length at most n
SeqsUpTo(S, n) ==
    IF n = 0 THEN {<<>>}
    ELSE LET shorter == SeqsUpTo(S, n - 1)
         IN  shorter \cup {Append(q, x) : q \in {r \in shorter : Len(r) = n - 1}, x \in S}

InitAverage ==
    /\ avgCurve \in SeqsUpTo({0, 7, EScale}, MaxCurveLen)
    /\ avgTime \in 0..(UnitsPerSample * (MaxCurveLen + 1) + 1)
    /\ avgResult = <<>>
    /\ avgPc = "input"
    /\ SectionIdle /\ PhraseIdle /\ EnergyIdle /\ DrumIdle /\ BeatIdle /\ ServiceIdle
    /\ UiIdle

AverageEnergy ==
    /\ avgPc = "input"
    /\ avgResult' = getAverageEnergy(avgCurve, avgTime, avgTime)
    /\ avgPc' = "done"
    /\ UNCHANGED <<avgCurve, avgTime>>
    /\ UNCHANGED <<sectionVars, phraseVars, energyVars, drumVars, beatVars, serviceVars, uiVars>>

NextAverage == AverageEnergy

SpecAverage == InitAverage /\ [][NextAverage]_vars

(* C3 as stated: getAverageEnergy(env, t, t) returns 0 for every envelope  *)
(* and every t >= 0, on or off the 0.1 s sample grid.                      *)
EmptyRangeAveragesZero ==
    avgPc = "done" => REq(avgResult, Rat(0, 1))

(* C3 amended: getAverageEnergy(env, t, t) returns 0 when t lies on the    *)
(* 0.1 s sample grid (t * 10 is an integer) or at or beyond the end of the *)
(* envelope (floor(t * 10) >= length); for an off-grid t inside the        *)
(* envelope it returns the sample env[floor(t * 10)].                      *)
EmptyRangeAverage ==
    avgPc = "done" =>
        IF avgTime % UnitsPerSample = 0 \/ FloorIndex(avgTime) >= Len(avgCurve)
        THEN REq(avgResult, Rat(0, 1))
        ELSE REq(avgResult, Rat(At(avgCurve, FloorIndex(avgTime)), 1))

\* an off-grid t inside the envelope, averaged to a non-zero sample
EmptyRangeWitness ==
    /\ avgPc = "done"
    /\ avgTime % UnitsPerSample # 0
    /\ FloorIndex(avgTime) < Len(avgCurve)
    /\ ~REq(avgResult, Rat(0, 1))

-----------------------------------------------------------------------------
(* Specification SpecPhrases: detectPhraseBoundaries on bounded inputs *)

\* longest section list passed to detectPhraseBoundaries
MaxSections == 3

\* largest number of bars passed to detectPhraseBoundaries
MaxPhraseBars == 9

\* a section starting at t; only startTime is read by detectPhraseBoundaries
SectionFrom(t) ==
    [type |-> "unknown", startTime |-> t, endTime |-> t + MIN_SECTION_DURATION,
     energy |-> Rat(EScale, 2)]

\* any section list: starts in any order, repeated or not
PhraseSectionLists ==
    {[i \in 1..Len(q) |-> SectionFrom(q[i])] : q \in SeqsUpTo({0, 30, 45, 100}, MaxSections)}

\* sections[i].endTime == sections[i+1].startTime
IsContiguous(secs) ==
    \A i \in 1..(Len(secs) - 1) : secs[i].endTime = secs[i + 1].startTime

\* contiguous section lists: ascending starts, each section ending where
\* the next one starts
ContiguousSectionLists ==
    {[i \in 1..Len(q) |->
        [type |-> "unknown", startTime |-> q[i],
         endTime |-> IF i < Len(q) THEN q[i + 1] ELSE q[i] + MIN_SECTION_DURATION,
         energy |-> Rat(EScale, 2)]] :
     q \in {p \in SeqsUpTo({0, 30, 45, 100}, MaxSections) : IsStrictlyIncreasing(p)}}

\* ascending bar lists, with and without repeated timestamps
PhraseBarLists ==
    {Grid(off, step, n) : off \in {0, 25}, step \in {0, 5, 12, 20},
                          n \in {0, 1, 5, MaxPhraseBars}}

InitPhrases ==
    /\ phraseBarTimes \in PhraseBarLists
    /\ phraseSections \in PhraseSectionLists \cup ContiguousSectionLists
    /\ phraseBoundaries = <<>>
    /\ phrasePc = "input"
    /\ SectionIdle /\ AvgIdle /\ EnergyIdle /\ DrumIdle /\ BeatIdle /\ ServiceIdle
    /\ UiIdle

DetectPhraseBoundaries ==
    /\ phrasePc = "input"
    /\ phraseBoundaries' = detectPhraseBoundaries(phraseBarTimes, phraseSections)
    /\ phrasePc' = "done"
    /\ UNCHANGED <<phraseBarTimes, phraseSections>>
    /\ UNCHANGED <<sectionVars, avgVars, energyVars, drumVars, beatVars, serviceVars, uiVars>>

NextPhrases == DetectPhraseBoundaries

SpecPhrases == InitPhrases /\ [][NextPhrases]_vars

(* C10: the list returned by detectPhraseBoundaries is strictly increasing *)
(* (sorted ascending, no timestamp twice), for any ascending barTimes and  *)
(* any section list.                                                       *)
PhraseBoundariesStrictlyIncreasing ==
    phrasePc = "done" => IsStrictlyIncreasing(phraseBoundaries)

(* C11: in the list returned by detectPhraseBoundaries any two distinct *)
(* boundaries are at least 2.0 s apart, for any ascending barTimes and   *)
(* any contiguous section list.                                          *)
PhraseBoundariesSpaced ==
    (phrasePc = "done" /\ IsAscending(phraseBarTimes) /\ IsContiguous(phraseSections)) =>
        \A i, j \in 1..Len(phraseBoundaries) :
            i < j => Abs(phraseBoundaries[j] - phraseBoundaries[i]) >= 2 * UPS

\* a call with a repeated section start and unsorted starts that returned
\* section starts and bars, some bar having been dropped as too close
PhraseBoundariesWitness ==
    /\ phrasePc = "done"
    /\ \E i, j \in 1..Len(phraseSections) :
           i < j /\ phraseSections[i].startTime = phraseSections[j].startTime
    /\ \E i, j \in 1..Len(phraseSections) :
           i < j /\ phraseSections[i].startTime > phraseSections[j].startTime
    /\ Len(phraseBoundaries) >= 4
    /\ \E k \in 1..Len(phraseBoundaries) :
           \A i \in 1..Len(phraseSections) :
               phraseSections[i].startTime # phraseBoundaries[k]
    /\ \E i \in 0..(Len(phraseBarTimes) - 1) :
           /\ i % BARS_PER_PHRASE = 0
           /\ \A k \in 1..Len(phraseBoundaries) :
                  phraseBoundaries[k] # At(phraseBarTimes, i)

-----------------------------------------------------------------------------
(* Worker pipeline, tempo and bar derivation (part_002:202-217, 258-266) *)

RECURSIVE SumSeq(_)
SumSeq(q) == IF q = <<>> THEN 0 ELSE q[1] + SumSeq(Tail(q))

\* part_002:205-208, the inter-beat intervals
beatIntervals(beats) ==
    [i \in 1..(Len(beats) - 1) |-> beats[i + 1] - beats[i]]

\* part_002:203-211, beats per minute as a rational; 60 / 0 is Infinity,
\* written <<1, 0>>
tempoOf(beats) ==
    IF Len(beats) >= 2
    THEN LET intervals == beatIntervals(beats)
             total == SumSeq(intervals)
         IN  IF total = 0 THEN <<1, 0>>
             ELSE Rat(60 * UPS * Len(intervals), total)
    ELSE Rat(120, 1)

RECURSIVE barTimesCompleteOnly(_, _)
\* barTimesOf keeping a bar only when all four of its beats exist
barTimesCompleteOnly(beats, i) ==
    IF i + 4 > Len(beats) THEN <<>>
    ELSE <<At(beats, i)>> \o barTimesCompleteOnly(beats, i + 4)

RECURSIVE barTimesOf(_, _)
\* part_002:214-217, for (i = 0; i < beatTimes.length; i += 4)
barTimesOf(beats, i) ==
    IF i >= Len(beats) THEN <<>>
    ELSE <<At(beats, i)>> \o barTimesOf(beats, i + 4)

\* part_002:259-266, the beat fields of the returned analysis
beatFields(beats) ==
    LET bars == barTimesOf(beats, 0)
    IN  [beatTimes |-> beats, barTimes |-> bars, tempo |-> tempoOf(beats),
         beatCount |-> Len(beats), barCount |-> Len(bars)]

-----------------------------------------------------------------------------
(* Specification SpecBeats: tempo and bars on bounded beat lists *)

\* longest beat list
MaxBeats == 9

\* beat lists whose intervals alternate between a and b
BeatLists ==
    {[i \in 1..n |-> off + ((i - 1) \div 2) * (a + b) + ((i - 1) % 2) * a] :
        off \in {0, 3}, a \in {8, 10, 12}, b \in {8, 10, 12}, n \in 0..MaxBeats}

InitBeats ==
    /\ beatTimes \in BeatLists
    /\ beatResult = <<>>
    /\ beatPc = "input"
    /\ SectionIdle /\ AvgIdle /\ PhraseIdle /\ EnergyIdle /\ DrumIdle /\ ServiceIdle
    /\ UiIdle

DeriveBeatFields ==
    /\ beatPc = "input"
    /\ beatResult' = beatFields(beatTimes)
    /\ beatPc' = "done"
    /\ UNCHANGED beatTimes
    /\ UNCHANGED <<sectionVars, avgVars, phraseVars, energyVars, drumVars, serviceVars, uiVars>>

NextBeats == DeriveBeatFields

SpecBeats == InitBeats /\ [][NextBeats]_vars

\* beatTimes = [0, 0.5, 1.0, ..., 4.0]
NineBeats == Grid(0, UPS \div 2, 9)

(* C9 as stated: for the nine beats 0, 0.5, ..., 4.0 the pipeline derives *)
(* tempo 120, barTimes [0, 2.0] and barCount 2.                           *)
NineBeatsGiveTwoBars ==
    (beatPc = "done" /\ beatTimes = NineBeats) =>
        /\ beatResult.tempo = Rat(120, 1)
        /\ beatResult.barTimes = <<0, 2 * UPS>>
        /\ beatResult.barCount = 2

(* C9 amended: for the nine beats 0, 0.5, ..., 4.0 the pipeline derives   *)
(* tempo 120, barTimes [0, 2.0, 4.0] and barCount 3 (beat indices 0, 4    *)
(* and 8 each start a bar).                                               *)
NineBeatsGiveThreeBars ==
    (beatPc = "done" /\ beatTimes = NineBeats) =>
        /\ beatResult.tempo = Rat(120, 1)
        /\ beatResult.barTimes = <<0, 2 * UPS, 4 * UPS>>
        /\ beatResult.barCount = 3

\* the nine-beat scenario has been analysed
NineBeatsWitness ==
    /\ beatPc = "done"
    /\ beatTimes = NineBeats
    /\ beatResult.beatCount = 9
    /\ beatResult.barCount = Len(beatResult.barTimes)

-----------------------------------------------------------------------------
(* DrumAnalyzer onset detection (EnergyAnalyzer.ts:208-223, 354-385,     *)
(* 395-460).  Drum times are counted in units of 1/(100 * sampleRate) s, *)
(* so that frame times and the minimum intervals are integers; the       *)
(* rounding of frame times to 32-bit floats is not modelled.             *)

FFT_SIZE == 2048
HOP_SIZE == 512

\* ONSET_THRESHOLDS, in tenths
ONSET_THRESHOLDS == [kick |-> 18, snare |-> 20, hihat |-> 16]

\* MIN_HIT_INTERVAL, in hundredths of a second
MIN_HIT_INTERVAL == [kick |-> 15, snare |-> 12, hihat |-> 5]

Bands == {"kick", "snare", "hihat"}

\* detectOnsets' sliding window
windowSize == 10

\* EnergyAnalyzer.ts:434, the centre of each frame
frameTimesOf(numFrames) ==
    [k \in 1..numFrames |-> 100 * ((k - 1) * HOP_SIZE + FFT_SIZE \div 2)]

\* a band energy that is NaN (0 / 0 in getBandEnergy); energies are >= 0
NaNEnergy == 0 - 1

\* energy[i] >= threshold * localMean and not falling
isOnsetNotStrict(energy, threshold, i) ==
    /\ \A j \in (i - windowSize)..i : At(energy, j) # NaNEnergy
    /\ 10 * windowSize * At(energy, i) >= threshold * SumRange(energy, i - windowSize, i)
    /\ At(energy, i) >= At(energy, i - 1)

\* EnergyAnalyzer.ts:367-374, energy[i] > threshold * localMean and rising;
\* a comparison with NaN is false
isOnset(energy, threshold, i) ==
    /\ \A j \in (i - windowSize)..i : At(energy, j) # NaNEnergy
    /\ 10 * windowSize * At(energy, i) > threshold * SumRange(energy, i - windowSize, i)
    /\ At(energy, i) > At(energy, i - 1)

\* onsetStep without the minimum-interval test
onsetStepNoInterval(energy, frameTimes, threshold, minInterval, i, onsets) ==
    IF isOnset(energy, threshold, i) THEN Append(onsets, At(frameTimes, i))
    ELSE onsets

\* EnergyAnalyzer.ts:366-382, one iteration of detectOnsets' loop
onsetStep(energy, frameTimes, threshold, minInterval, i, onsets) ==
    IF isOnset(energy, threshold, i)
    THEN LET time == At(frameTimes, i)
         IN  IF Len(onsets) = 0 \/ time - onsets[Len(onsets)] >= minInterval
             THEN Append(onsets, time)
             ELSE onsets
    ELSE onsets

RECURSIVE detectOnsetsRange(_, _, _, _, _, _, _)
\* the iterations from <= i < to of detectOnsets' loop, in order: the first
\* half, then the second half from the onsets that the first half leaves
detectOnsetsRange(energy, frameTimes, threshold, minInterval, from, to, onsets) ==
    IF from >= to THEN onsets
    ELSE IF to - from = 1
    THEN onsetStep(energy, frameTimes, threshold, minInterval, from, onsets)
    ELSE LET mid == (from + to) \div 2
             firstHalf == detectOnsetsRange(energy, frameTimes, threshold,
                                            minInterval, from, mid, onsets)
         IN  IF Len(firstHalf) >= 0
             THEN detectOnsetsRange(energy, frameTimes, threshold, minInterval,
                                    mid, to, firstHalf)
             ELSE firstHalf

\* EnergyAnalyzer.ts:365, for (i = windowSize; i < energy.length - 1; i++)
detectOnsetsLoop(energy, frameTimes, threshold, minInterval, i, onsets) ==
    detectOnsetsRange(energy, frameTimes, threshold, minInterval,
                      i, Len(energy) - 1, onsets)

\* EnergyAnalyzer.ts:354-385
detectOnsets(energy, frameTimes, threshold, minInterval) ==
    detectOnsetsLoop(energy, frameTimes, threshold, minInterval, windowSize, <<>>)

\* a band's minimum interval in drum time units
minIntervalOf(band, rate) == MIN_HIT_INTERVAL[band] * rate

\* EnergyAnalyzer.ts:445-452, in time units of 1/UPS s
patternLengthOf(beats) ==
    IF Len(beats) >= 2
    THEN Rat(16 * (beats[Len(beats)] - beats[1]), Len(beats) - 1)
    ELSE Rat(0, 1)

\* EnergyAnalyzer.ts:395-460 from the band energies on: the onset times of
\* each band and the pattern length (all empty and 0 when there is no frame)
analyzeDrums(bandEnergy, rate, beats) ==
    LET numFrames == Len(bandEnergy["kick"])
        onsets(band) ==
            detectOnsets(bandEnergy[band], frameTimesOf(numFrames),
                         ONSET_THRESHOLDS[band], minIntervalOf(band, rate))
    IN  IF numFrames <= 0
        THEN [kick |-> <<>>, snare |-> <<>>, hihat |-> <<>>,
              patternLength |-> Rat(0, 1)]
        ELSE [kick |-> onsets("kick"), snare |-> onsets("snare"),
              hihat |-> onsets("hihat"), patternLength |-> patternLengthOf(beats)]

-----------------------------------------------------------------------------
(* Specification SpecDrums: onset detection on bounded band energies *)

\* frames after the warm-up window
MaxTail == 5

\* band energies: a short run, or ten warm-up frames at one level followed
\* by a run
EnergyRuns ==
    LET tails == SeqsUpTo({0, 1, 4, 16}, MaxTail)
    IN  tails \cup {[k \in 1..windowSize |-> w] \o t : w \in {0, 1}, t \in tails}

\* detectOnsets reads one band at a time, so one run is tried in all three
\* bands, each with its own threshold and minimum interval
InitDrums ==
    /\ \E e \in EnergyRuns : frameEnergy = [band \in Bands |-> e]
    /\ drumSampleRate \in {8000, 44100}
    /\ drumPattern = <<>>
    /\ drumPc = "input"
    /\ FftIdle
    /\ beatTimes \in {<<>>, <<3, 13, 25>>}
    /\ beatResult = <<>> /\ beatPc = "idle"
    /\ SectionIdle /\ AvgIdle /\ PhraseIdle /\ EnergyIdle /\ ServiceIdle
    /\ UiIdle

AnalyzeDrums ==
    /\ drumPc = "input"
    /\ drumPattern' = analyzeDrums(frameEnergy, drumSampleRate, beatTimes)
    /\ drumPc' = "done"
    /\ UNCHANGED <<frameEnergy, drumSampleRate, fftVars>>
    /\ UNCHANGED <<sectionVars, avgVars, phraseVars, energyVars, beatVars, serviceVars, uiVars>>

NextDrums == AnalyzeDrums

SpecDrums == InitDrums /\ [][NextDrums]_vars

(* C7: each of kickTimes, snareTimes and hihatTimes returned by          *)
(* analyzeDrums is strictly increasing, and two consecutive timestamps   *)
(* of a band are at least the band's minimum spacing apart (kick 0.15 s, *)
(* snare 0.12 s, hi-hat 0.05 s).                                         *)
OnsetsSpacedAndIncreasing ==
    drumPc = "done" =>
        \A band \in Bands :
            LET times == drumPattern[band]
            IN  /\ IsStrictlyIncreasing(times)
                /\ \A k \in 1..(Len(times) - 1) :
                       times[k + 1] - times[k] >= minIntervalOf(band, drumSampleRate)

\* a run with two accepted kicks and, between them, a frame that passed the
\* threshold test but fell within the kick interval
OnsetsWitness ==
    /\ drumPc = "done"
    /\ Len(drumPattern["kick"]) >= 2
    /\ \E i \in windowSize..(Len(frameEnergy["kick"]) - 2) :
           /\ isOnset(frameEnergy["kick"], ONSET_THRESHOLDS["kick"], i)
           /\ \A k \in 1..Len(drumPattern["kick"]) :
                  drumPattern["kick"][k] # At(frameTimesOf(Len(frameEnergy["kick"])), i)

-----------------------------------------------------------------------------
(* EnergyAnalyzer envelope (EnergyAnalyzer.ts:19-98).  Samples are        *)
(* integers in an arbitrary amplitude unit; an RMS value is kept to       *)
(* 1/RmsScale of that unit, rounded down; smoothed and normalised values  *)
(* are exact rationals.                                                   *)

RmsScale == 100

\* Math.sqrt on x >= 0, rounded down to an integer
ISqrt(x) == CHOOSE r \in 0..(x + 1) : r * r <= x /\ (r + 1) * (r + 1) > x

RECURSIVE SumSquares(_, _, _)
\* EnergyAnalyzer.ts:25-28; samples[i] ?? 0 reads 0 past the end
SumSquares(samples, start, end) ==
    IF start >= end THEN 0
    ELSE IF end - start = 1
    THEN LET sample == IF start < Len(samples) THEN At(samples, start) ELSE 0
         IN  sample * sample
    ELSE LET mid == (start + end) \div 2
         IN  SumSquares(samples, start, mid) + SumSquares(samples, mid, end)

\* EnergyAnalyzer.ts:19-31
calculateRMS(samples, start, end) ==
    LET count == end - start
    IN  IF count <= 0 THEN 0
        ELSE ISqrt((SumSquares(samples, start, end) * RmsScale * RmsScale) \div count)

\* EnergyAnalyzer.ts:37-54
smoothEnergyCurve(curve, smoothWindow) ==
    LET halfWindow == smoothWindow \div 2
    IN  [k \in 1..Len(curve) |->
            LET i  == k - 1
                lo == Max(0, i - halfWindow)
                hi == Min(Len(curve), i + halfWindow + 1)
            IN  Rat(SumRange(curve, lo, hi), hi - lo)]

RECURSIVE maxEnergyRange(_, _, _, _)
\* EnergyAnalyzer.ts:83-87, the iterations from <= i < to of the loop, in
\* order: the first half, then the second half from the maximum so far
maxEnergyRange(smoothed, from, to, maxEnergy) ==
    IF from >= to THEN maxEnergy
    ELSE IF to - from = 1
    THEN IF RLt(maxEnergy, At(smoothed, from)) THEN At(smoothed, from) ELSE maxEnergy
    ELSE LET mid == (from + to) \div 2
             firstHalf == maxEnergyRange(smoothed, from, mid, maxEnergy)
         IN  IF Len(firstHalf) = 2
             THEN maxEnergyRange(smoothed, mid, to, firstHalf)
             ELSE firstHalf

\* EnergyAnalyzer.ts:82-87
maxEnergyOf(smoothed, i, maxEnergy) ==
    maxEnergyRange(smoothed, i, Len(smoothed), maxEnergy)

\* EnergyAnalyzer.ts:64-76, the RMS of each window
rawEnergyOf(samples, rate) ==
    LET outputLength  == (Len(samples) * OUTPUT_SAMPLE_RATE + rate - 1) \div rate
        windowSamples == rate \div OUTPUT_SAMPLE_RATE
    IN  [k \in 1..outputLength |->
            LET startSample == (k - 1) * windowSamples
                endSample   == Min(startSample + windowSamples, Len(samples))
            IN  calculateRMS(samples, startSample, endSample)]

\* EnergyAnalyzer.ts:63-98
analyzeEnergy(samples, rate) ==
    LET smoothed  == smoothEnergyCurve(rawEnergyOf(samples, rate), 5)
        maxEnergy == maxEnergyOf(smoothed, 0, Rat(0, 1))
    IN  [k \in 1..Len(smoothed) |->
            IF RLt(Rat(0, 1), maxEnergy)
            THEN Rat(smoothed[k][1] * maxEnergy[2], smoothed[k][2] * maxEnergy[1])
            ELSE Rat(0, 1)]

\* n samples of silence
Silence(n) == SubSeq([k \in 1..n |-> 0], 1, n)

\* the Float32Array: lead zero samples, then the samples of tail
waveformOf(lead, tail) == IF lead = 0 THEN tail ELSE Silence(lead) \o tail

-----------------------------------------------------------------------------
(* Specification SpecEnergy: analyzeEnergy on bounded waveforms *)

\* longest waveform, in samples
MaxSamples == 5

\* sample rates below, at, and above the output rate, multiples of it or not
SampleRates == {5, 10, 15, 20}

InitEnergy ==
    /\ leadSilence = 0
    /\ audioData \in SeqsUpTo({0, 3, -4}, MaxSamples)
    /\ sampleRate \in SampleRates
    /\ envelope = <<>>
    /\ energyPc = "input"
    /\ SectionIdle /\ AvgIdle /\ PhraseIdle /\ DrumIdle /\ BeatIdle /\ ServiceIdle
    /\ UiIdle

AnalyzeEnergy ==
    /\ energyPc = "input"
    /\ envelope' = analyzeEnergy(waveformOf(leadSilence, audioData), sampleRate)
    /\ energyPc' = "done"
    /\ UNCHANGED <<leadSilence, audioData, sampleRate>>
    /\ UNCHANGED <<sectionVars, avgVars, phraseVars, drumVars, beatVars, serviceVars, uiVars>>

NextEnergy == AnalyzeEnergy

SpecEnergy == InitEnergy /\ [][NextEnergy]_vars

IsSilent(samples) == \A k \in 1..Len(samples) : samples[k] = 0

(* C8: for any waveform and any positive sample rate every envelope value *)
(* lies in [0,1]; if some sample is non-zero at least one envelope value  *)
(* equals 1.0; if the input is silent all envelope values are 0.          *)
EnvelopeNormalized ==
    energyPc = "done" =>
        /\ \A k \in 1..Len(envelope) :
               RLe(Rat(0, 1), envelope[k]) /\ RLe(envelope[k], Rat(1, 1))
        /\ ~IsSilent(audioData) => \E k \in 1..Len(envelope) : envelope[k] = Rat(1, 1)
        /\ IsSilent(audioData) => \A k \in 1..Len(envelope) : envelope[k] = Rat(0, 1)

-----------------------------------------------------------------------------
(* BeatDetectionService.analyzeBeatsEnhanced (BeatDetectionService.ts:    *)
(* 136-208) and the worker's message handler (part_002:77-99, 172-299).   *)
(* Worker progress is counted in hundredths, the values given to a        *)
(* progress sink in thousandths.  A run is one call of the service.       *)

\* concurrent calls of analyzeBeatsEnhanced
NumRuns == 2

Runs == 1..NumRuns

\* part_002:195-257, the sendProgress calls after initialize(), in order
MILESTONES == <<10, 20, 35, 45, 60, 75, 90, 100>>

\* part_002:198-199: sendProgress calls passed when the beat tracker throws
BeatTrackerAt == 2

Remove(q, x) == SelectSeq(q, LAMBDA y : y # x)

\* the main-thread state the listeners act on
MainState ==
    [callPc |-> callPc, sink |-> sink, resolvedWith |-> resolvedWith,
     settleCount |-> settleCount,
     msgListeners |-> msgListeners, errListeners |-> errListeners]

\* onProgress?.(value), value in thousandths, caused by a message of run from
onProgress(st, l, value, from) ==
    [st EXCEPT !.sink[l] = Append(@, [value |-> value, from |-> from])]

\* BeatDetectionService.ts:165-187, the listener of run l receives msg
handleMessage(st, l, msg) ==
    IF msg.type = "progress"
    THEN onProgress(st, l, 50 + 9 * msg.progress, msg.run)
    ELSE LET removed == [st EXCEPT !.msgListeners = Remove(@, l),
                                   !.errListeners = Remove(@, l)]
         IN  IF msg.type = "result"
             THEN [onProgress(removed, l, 1000, msg.run)
                      EXCEPT !.callPc[l] = "resolved", !.resolvedWith[l] = msg.run,
                             !.settleCount[l] = @ + 1]
             ELSE [removed EXCEPT !.callPc[l] = "rejected", !.settleCount[l] = @ + 1]

\* an error listener that removes itself only
handleErrorKeepsMessageListener(st, l) ==
    [st EXCEPT !.errListeners = Remove(@, l),
               !.callPc[l] = "rejected", !.settleCount[l] = @ + 1]

\* BeatDetectionService.ts:189-193
handleError(st, l) ==
    [st EXCEPT !.msgListeners = Remove(@, l), !.errListeners = Remove(@, l),
               !.callPc[l] = "rejected", !.settleCount[l] = @ + 1]

RECURSIVE dispatchMessage(_, _, _)
\* the 'message' event: every listener registered on the worker is called
dispatchMessage(st, listeners, msg) ==
    IF listeners = <<>> THEN st
    ELSE dispatchMessage(handleMessage(st, Head(listeners), msg), Tail(listeners), msg)

RECURSIVE dispatchError(_, _)
\* the 'error' event: every error listener registered on the worker is called
dispatchError(st, listeners) ==
    IF listeners = <<>> THEN st
    ELSE dispatchError(handleError(st, Head(listeners)), Tail(listeners))

SetMain(st) ==
    /\ callPc' = st.callPc
    /\ sink' = st.sink
    /\ resolvedWith' = st.resolvedWith
    /\ settleCount' = st.settleCount
    /\ msgListeners' = st.msgListeners
    /\ errListeners' = st.errListeners

\* part_002:172-175, sendProgress for the request of run r
sendProgress(box, r, p) == Append(box, [type |-> "progress", run |-> r, progress |-> p])

RECURSIVE sendMilestones(_, _, _, _)
\* the sendProgress calls k..upTo of the synchronous pipeline
sendMilestones(box, r, k, upTo) ==
    IF k > upTo THEN box
    ELSE sendMilestones(sendProgress(box, r, MILESTONES[k]), r, k + 1, upTo)

otherVars == <<sectionVars, avgVars, phraseVars, energyVars, drumVars, beatVars,
               uiVars>>
otherFnVars == <<sectionVars, avgVars, phraseVars, energyVars, drumVars, beatVars>>

InitService ==
    /\ callPc = [r \in Runs |-> "idle"]
    /\ failAt = [r \in Runs |-> "none"]
    /\ sink = [r \in Runs |-> <<>>]
    /\ resolvedWith = [r \in Runs |-> 0]
    /\ settleCount = [r \in Runs |-> 0]
    /\ msgListeners = <<>>
    /\ errListeners = <<>>
    /\ workerState = "none"
    /\ inbox = <<>>
    /\ wpc = [r \in Runs |-> "none"]
    /\ importing = <<>>
    /\ jobs = <<>>
    /\ isInitialized = FALSE
    /\ pipelineOutcome = [r \in Runs |-> "none"]
    /\ posted = [r \in Runs |-> <<>>]
    /\ outbox = <<>>
    /\ SectionIdle /\ AvgIdle /\ PhraseIdle /\ EnergyIdle /\ DrumIdle /\ BeatIdle
    /\ UiIdle

\* BeatDetectionService.ts:136-145: the call starts, reports 0.02 and fetches
Call(r, f) ==
    /\ callPc[r] = "idle"
    /\ (IF r = 1 THEN TRUE ELSE callPc[r - 1] # "idle")   \* runs are numbered by call order
    /\ failAt' = [failAt EXCEPT ![r] = f]
    /\ SetMain([onProgress(MainState, r, 20, r) EXCEPT !.callPc[r] = "fetching"])
    /\ UNCHANGED <<workerState, inbox, wpc, importing, jobs, isInitialized,
                   pipelineOutcome, posted, outbox>>
    /\ UNCHANGED otherVars

\* BeatDetectionService.ts:145-154: the fetch settles; on success the call
\* reports 0.03 and decodes, otherwise it throws
FetchDone(r, ok) ==
    /\ callPc[r] = "fetching"
    /\ IF ok
       THEN SetMain([onProgress(MainState, r, 30, r) EXCEPT !.callPc[r] = "decoding"])
       ELSE SetMain([MainState EXCEPT !.callPc[r] = "rejected"])
    /\ UNCHANGED <<failAt, workerState, inbox, wpc, importing, jobs, isInitialized,
                   pipelineOutcome, posted, outbox>>
    /\ UNCHANGED otherVars

\* BeatDetectionService.ts:154-206: decodeAudioData settles; on success the
\* call gets the shared worker, adds its two listeners and posts 'analyze'
DecodeDone(r, ok) ==
    /\ callPc[r] = "decoding"
    /\ IF ok
       THEN /\ workerState' = IF workerState = "none" THEN "created" ELSE workerState
            /\ SetMain([MainState EXCEPT !.callPc[r] = "waiting",
                                         !.msgListeners = Append(@, r),
                                         !.errListeners = Append(@, r)])
            /\ inbox' = Append(inbox, r)
       ELSE /\ SetMain([MainState EXCEPT !.callPc[r] = "rejected"])
            /\ UNCHANGED <<workerState, inbox>>
    /\ UNCHANGED <<failAt, wpc, importing, jobs, isInitialized, pipelineOutcome,
                   posted, outbox>>
    /\ UNCHANGED otherVars

\* the main thread dispatches the next worker message to the listeners
MainDeliver ==
    /\ outbox # <<>>
    /\ SetMain(dispatchMessage(MainState, msgListeners, Head(outbox)))
    /\ outbox' = Tail(outbox)
    /\ UNCHANGED <<failAt, workerState, inbox, wpc, importing, jobs, isInitialized,
                   pipelineOutcome, posted>>
    /\ UNCHANGED otherVars

\* the worker script fails before handling any message: the 'error' event
WorkerError ==
    /\ workerState = "created"
    /\ \A r \in Runs : wpc[r] = "none"
    /\ workerState' = "failed"
    /\ SetMain(dispatchError(MainState, errListeners))
    /\ UNCHANGED <<failAt, inbox, wpc, importing, jobs, isInitialized,
                   pipelineOutcome, posted, outbox>>
    /\ UNCHANGED otherVars

\* part_002:283-290, 180-188, 77-83: the worker takes the next 'analyze'
\* message, sends progress 0.05 and awaits initialize()
WorkerOnMessage ==
    /\ workerState = "created"
    /\ inbox # <<>>
    /\ jobs = <<>>
    /\ LET r == Head(inbox)
       IN  /\ inbox' = Tail(inbox)
           /\ outbox' = sendProgress(outbox, r, 5)
           /\ posted' = [posted EXCEPT ![r] = Append(@, "progress")]
           /\ IF isInitialized
              THEN /\ jobs' = <<[run |-> r, kind |-> "afterInit", ok |-> TRUE]>>
                   /\ wpc' = [wpc EXCEPT ![r] = "running"]
                   /\ UNCHANGED importing
              ELSE /\ importing' = Append(importing, r)
                   /\ wpc' = [wpc EXCEPT ![r] = "importing"]
                   /\ UNCHANGED jobs
    /\ UNCHANGED <<callPc, failAt, sink, resolvedWith, settleCount, msgListeners,
                   errListeners,
                   workerState, isInitialized, pipelineOutcome>>
    /\ UNCHANGED otherVars

\* part_002:82-83: the dynamic imports of the first n waiting runs settle
ImportDone(n, ok) ==
    /\ jobs = <<>>
    /\ n \in 1..Len(importing)
    /\ jobs' = [k \in 1..n |-> [run |-> importing[k], kind |-> "imported", ok |-> ok]]
    /\ importing' = SubSeq(importing, n + 1, Len(importing))
    /\ wpc' = [r \in Runs |->
                 IF \E k \in 1..n : importing[k] = r THEN "running" ELSE wpc[r]]
    /\ UNCHANGED <<callPc, failAt, sink, resolvedWith, settleCount, msgListeners,
                   errListeners,
                   workerState, inbox, isInitialized, pipelineOutcome, posted, outbox>>
    /\ UNCHANGED otherVars

\* part_002:85-98: initialize() resumes after the imports
RunImported ==
    /\ jobs # <<>>
    /\ Head(jobs).kind = "imported"
    /\ LET j == Head(jobs)
       IN  /\ isInitialized' = (isInitialized \/ j.ok)
           /\ jobs' = Append(Tail(jobs), [j EXCEPT !.kind = "afterInit"])
    /\ UNCHANGED <<callPc, failAt, sink, resolvedWith, settleCount, msgListeners,
                   errListeners,
                   workerState, inbox, wpc, importing, pipelineOutcome, posted,
                   outbox>>
    /\ UNCHANGED otherVars

\* part_002:188-280: analyzeBeatsEnhanced resumes after await initialize()
\* and runs the synchronous pipeline to its return or to the throw
RunAfterInit ==
    /\ jobs # <<>>
    /\ Head(jobs).kind = "afterInit"
    /\ LET j == Head(jobs)
           r == j.run
           upTo == IF ~j.ok THEN 0
                   ELSE IF failAt[r] = "beatTracker" THEN BeatTrackerAt
                   ELSE Len(MILESTONES)
           threw == ~j.ok \/ failAt[r] = "beatTracker"
       IN  /\ outbox' = sendMilestones(outbox, r, 1, upTo)
           /\ posted' = [posted EXCEPT ![r] = @ \o [k \in 1..upTo |-> "progress"]]
           /\ pipelineOutcome' = [pipelineOutcome EXCEPT
                                     ![r] = IF threw THEN "threw" ELSE "ok"]
           /\ jobs' = Append(Tail(jobs), [j EXCEPT !.kind = "settle"])
    /\ UNCHANGED <<callPc, failAt, sink, resolvedWith, settleCount, msgListeners,
                   errListeners,
                   workerState, inbox, wpc, importing, isInitialized>>
    /\ UNCHANGED otherVars

\* part_002:290-297: onmessage resumes after await analyzeBeatsEnhanced()
\* and posts 'result', or 'error' from the catch block
RunSettle ==
    /\ jobs # <<>>
    /\ Head(jobs).kind = "settle"
    /\ LET r == Head(jobs).run
           type == IF pipelineOutcome[r] = "ok" THEN "result" ELSE "error"
       IN  /\ outbox' = Append(outbox, [type |-> type, run |-> r, progress |-> 0])
           /\ posted' = [posted EXCEPT ![r] = Append(@, type)]
           /\ wpc' = [wpc EXCEPT ![r] = "done"]
    /\ jobs' = Tail(jobs)
    /\ UNCHANGED <<callPc, failAt, sink, resolvedWith, settleCount, msgListeners,
                   errListeners,
                   workerState, inbox, importing, isInitialized, pipelineOutcome>>
    /\ UNCHANGED otherVars

NextService ==
    \/ \E r \in Runs, f \in {"none", "beatTracker"} : Call(r, f)
    \/ \E r \in Runs, ok \in BOOLEAN : FetchDone(r, ok)
    \/ \E r \in Runs, ok \in BOOLEAN : DecodeDone(r, ok)
    \/ MainDeliver
    \/ WorkerError
    \/ WorkerOnMessage
    \/ \E n \in Runs, ok \in BOOLEAN : ImportDone(n, ok)
    \/ RunImported
    \/ RunAfterInit
    \/ RunSettle

SpecService == InitService /\ [][NextService]_vars

IsTerminal(type) == type \in {"result", "error"}

(* C4: when two analyses are in flight at the same time, each caller's   *)
(* promise resolves with the result computed from its own audio input    *)
(* and each caller's progress sink receives only its own run's progress; *)
(* no run receives another run's result.                                 *)
RunsAreIsolated ==
    \A r \in Runs :
        /\ callPc[r] = "resolved" => resolvedWith[r] = r
        /\ \A k \in 1..Len(sink[r]) : sink[r][k].from = r

(* C5: for each analyze request the worker posts exactly one terminal    *)
(* message ('result' or 'error', never both, none after it), and when a  *)
(* stage of the pipeline throws the caller's promise rejects and never   *)
(* resolves.                                                             *)
FailureReportedOnce ==
    \A r \in Runs :
        /\ \A k \in 1..Len(posted[r]) : IsTerminal(posted[r][k]) => k = Len(posted[r])
        /\ wpc[r] = "done" =>
               /\ posted[r] # <<>>
               /\ posted[r][Len(posted[r])] =
                      (IF pipelineOutcome[r] = "threw" THEN "error" ELSE "result")
        /\ pipelineOutcome[r] = "threw" => callPc[r] # "resolved"

(* C6: within one run the progress values delivered to the caller's sink *)
(* (0.02, 0.03, the worker milestones as 0.05 + p * 0.9, the final 1)    *)
(* never decrease, and every value lies in [0,1].                        *)
ProgressNeverDecreases ==
    \A r \in Runs :
        /\ \A k \in 1..Len(sink[r]) : sink[r][k].value \in 0..1000
        /\ \A k \in 1..(Len(sink[r]) - 1) : sink[r][k].value <= sink[r][k + 1].value

-----------------------------------------------------------------------------
(* DrumAnalyzer spectrum (EnergyAnalyzer.ts:255-328).  The butterflies    *)
(* are computed exactly while every twiddle factor is 1 or -i (N <= 4)    *)
(* and for an all-zero frame; for a longer non-zero frame the cosines and *)
(* sines are irrational, and the magnitudes are whatever fftMags holds.   *)

RECURSIVE BitAnd(_, _)
\* a & b on two's-complement integers, for a >= 0
BitAnd(a, b) ==
    IF a = 0 \/ b = 0 THEN 0
    ELSE (a % 2) * (b % 2) + 2 * BitAnd(a \div 2, b \div 2)

RECURSIVE Log2(_)
\* Math.log2 of a power of two
Log2(n) == IF n <= 1 THEN 0 ELSE 1 + Log2(n \div 2)

RECURSIVE Pow2(_)
Pow2(k) == IF k <= 0 THEN 1 ELSE 2 * Pow2(k - 1)

RECURSIVE reverseBits(_, _)
\* EnergyAnalyzer.ts:321-328
reverseBits(x, bits) ==
    IF bits <= 0 THEN 0
    ELSE (x % 2) * Pow2(bits - 1) + reverseBits(x \div 2, bits - 1)

\* EnergyAnalyzer.ts:267-281, the bit-reversal permutation
bitReversal(arr) ==
    LET bits == Log2(Len(arr))
    IN  [k \in 1..Len(arr) |-> At(arr, reverseBits(k - 1, bits))]

\* EnergyAnalyzer.ts:286, 290-292: <<cos, sin>> of angleStep * j where exact
twiddle(size, j) == IF j = 0 THEN <<1, 0>> ELSE <<0, -1>>

\* EnergyAnalyzer.ts:288-305, all butterflies of one size on <<real, imag>>
butterflies(c, size) ==
    LET real == c[1]
        imag == c[2]
        halfSize == size \div 2
        j(k) == ((k - 1) % size) % halfSize
        isOdd(k) == (k - 1) % size >= halfSize
        oddIdx(k) == IF isOdd(k) THEN k ELSE k + halfSize
        evenIdx(k) == IF isOdd(k) THEN k - halfSize ELSE k
        tReal(k) == real[oddIdx(k)] * twiddle(size, j(k))[1]
                    - imag[oddIdx(k)] * twiddle(size, j(k))[2]
        tImag(k) == real[oddIdx(k)] * twiddle(size, j(k))[2]
                    + imag[oddIdx(k)] * twiddle(size, j(k))[1]
    IN  << [k \in 1..Len(real) |->
               IF isOdd(k) THEN real[evenIdx(k)] - tReal(k)
               ELSE real[evenIdx(k)] + tReal(k)],
           [k \in 1..Len(imag) |->
               IF isOdd(k) THEN imag[evenIdx(k)] - tImag(k)
               ELSE imag[evenIdx(k)] + tImag(k)] >>

RECURSIVE cooleyTukey(_, _)
\* EnergyAnalyzer.ts:284, for (size = 2; size <= N; size *= 2)
cooleyTukey(c, size) ==
    IF size > Len(c[1]) THEN c
    ELSE cooleyTukey(butterflies(c, size), size * 2)

IsZeroFrame(samples) == \A k \in 1..Len(samples) : samples[k] = 0

\* EnergyAnalyzer.ts:259, the power-of-two test
failsPowerOfTwoTest(N) == BitAnd(N, N - 1) # 0

\* EnergyAnalyzer.ts:255-316: the throw, or the N / 2 magnitudes returned
\* (the length of new Float32Array(N / 2) is N / 2 rounded down)
computeMagnitudeSpectrum(samples, mags) ==
    LET N == Len(samples) IN
    IF failsPowerOfTwoTest(N) THEN [threw |-> TRUE, spectrum |-> <<>>]
    ELSE IF N <= 4
    THEN LET c == cooleyTukey(<<bitReversal(samples), [k \in 1..N |-> 0]>>, 2)
         IN  [threw |-> FALSE,
              spectrum |-> [k \in 1..(N \div 2) |->
                 ISqrt((c[1][k] * c[1][k] + c[2][k] * c[2][k]) * RmsScale * RmsScale)]]
    ELSE [threw |-> FALSE,
          spectrum |-> IF IsZeroFrame(samples)
                       THEN SubSeq([k \in 1..(N \div 2) |-> 0], 1, N \div 2)
                       ELSE SubSeq(mags, 1, N \div 2)]

-----------------------------------------------------------------------------
(* DrumAnalyzer band energies of the frames (EnergyAnalyzer.ts:201-205,   *)
(* 333-349, 400-435).  applyWindow multiplies each sample by a Hamming    *)
(* weight in [0.08, 1]: a zero sample stays zero, and the magnitudes of a *)
(* non-zero frame of FFT_SIZE samples are those of mags whatever the      *)
(* weights, so a frame is passed on unweighted.                           *)

FREQUENCY_BANDS ==
    [kick  |-> [low |-> 20, high |-> 200],
     snare |-> [low |-> 200, high |-> 2000],
     hihat |-> [low |-> 5000, high |-> 15000]]

\* EnergyAnalyzer.ts:333-349, in 1/RmsScale; the bins are
\* floor(lowHz / binResolution) .. min(ceil(highHz / binResolution), length - 1)
getBandEnergy(spec, rate, lowHz, highHz) ==
    LET lowBin  == (lowHz * 2 * Len(spec)) \div rate
        highBin == Min((highHz * 2 * Len(spec) + rate - 1) \div rate, Len(spec) - 1)
        count   == highBin - lowBin + 1
        RECURSIVE squares(_, _)
        squares(lo, hi) ==
            IF lo > hi THEN 0
            ELSE IF lo = hi THEN At(spec, lo) * At(spec, lo)
            ELSE squares(lo, (lo + hi) \div 2) + squares((lo + hi) \div 2 + 1, hi)
    IN  IF count = 0 THEN NaNEnergy
        ELSE IF count < 0 THEN 0
        ELSE ISqrt(squares(lowBin, highBin) \div count)

\* EnergyAnalyzer.ts:400, Math.floor((length - FFT_SIZE) / HOP_SIZE)
numFramesOf(length) == (length - FFT_SIZE) \div HOP_SIZE

\* EnergyAnalyzer.ts:429-431, the energy of one spectrum in each band
bandsOfSpectrum(spec, rate) ==
    LET kick  == getBandEnergy(spec, rate, FREQUENCY_BANDS.kick.low,
                               FREQUENCY_BANDS.kick.high)
        snare == getBandEnergy(spec, rate, FREQUENCY_BANDS.snare.low,
                               FREQUENCY_BANDS.snare.high)
        hihat == getBandEnergy(spec, rate, FREQUENCY_BANDS.hihat.low,
                               FREQUENCY_BANDS.hihat.high)
    IN  [kick |-> kick, snare |-> snare, hihat |-> hihat]

\* EnergyAnalyzer.ts:418-431, one frame's energy in each band
frameBandEnergy(samples, rate, frame, mags) ==
    bandsOfSpectrum(
        computeMagnitudeSpectrum(
            SubSeq(samples, frame * HOP_SIZE + 1, frame * HOP_SIZE + FFT_SIZE),
            mags).spectrum,
        rate)

\* EnergyAnalyzer.ts:403-405, 429-431, the three energy arrays filled from
\* the frames' band energies
bandColumns(perFrame) ==
    [band \in Bands |->
        SubSeq([f \in 1..Len(perFrame) |-> perFrame[f][band]], 1, Len(perFrame))]

\* EnergyAnalyzer.ts:400-435, the energy arrays of the three bands
bandEnergiesOf(samples, rate, mags) ==
    LET numFrames == Max(0, numFramesOf(Len(samples)))
    IN  bandColumns(SubSeq([f \in 1..numFrames |->
                                frameBandEnergy(samples, rate, f - 1, mags)],
                           1, numFrames))

-----------------------------------------------------------------------------
(* Specification SpecSpectrum: computeMagnitudeSpectrum on bounded frames *)

\* longest frame of arbitrary length
MaxFrameLen == 9

\* frame lengths: every short one, and the powers of two in use
FrameLengths == 0..MaxFrameLen \cup {16, FFT_SIZE}

\* every frame of up to four samples; longer ones silent, constant or an
\* impulse
FramesOf(N) ==
    IF N <= 4 THEN {q \in SeqsUpTo({0, 3, -4}, 4) : Len(q) = N}
    ELSE {[k \in 1..N |-> 0], [k \in 1..N |-> 3],
          [k \in 1..N |-> IF k = 2 THEN -4 ELSE 0]}

\* magnitudes a floating-point spectrum of n bins may hold
MagChoices(n) == {[k \in 1..n |-> (m * k) % 7] : m \in 0..3}

InitSpectrum ==
    /\ \E N \in FrameLengths :
           /\ fftFrame \in FramesOf(N)
           /\ fftMags \in MagChoices(N \div 2)
    /\ spectrum = <<>>
    /\ fftPc = "input"
    /\ frameEnergy = <<>> /\ drumSampleRate = 0 /\ drumPattern = <<>> /\ drumPc = "idle"
    /\ SectionIdle /\ AvgIdle /\ PhraseIdle /\ EnergyIdle /\ BeatIdle /\ ServiceIdle
    /\ UiIdle

ComputeSpectrum ==
    /\ fftPc = "input"
    /\ LET out == computeMagnitudeSpectrum(fftFrame, fftMags)
       IN  IF out.threw
           THEN fftPc' = "threw" /\ UNCHANGED spectrum
           ELSE fftPc' = "done" /\ spectrum' = out.spectrum
    /\ UNCHANGED <<fftFrame, fftMags, frameEnergy, drumSampleRate, drumPattern, drumPc>>
    /\ UNCHANGED <<sectionVars, avgVars, phraseVars, energyVars, beatVars, serviceVars, uiVars>>

NextSpectrum == ComputeSpectrum

SpecSpectrum == InitSpectrum /\ [][NextSpectrum]_vars

IsPowerOfTwo(N) == \E k \in 0..Log2(FFT_SIZE) : N = Pow2(k)

(* C14: computeMagnitudeSpectrum throws for every non-negative frame     *)
(* length N that is not a power of two, and for every power-of-two N it  *)
(* returns a spectrum of exactly N/2 magnitudes.                         *)
SpectrumThrowsUnlessPowerOfTwo ==
    fftPc # "input" =>
        IF IsPowerOfTwo(Len(fftFrame))
        THEN fftPc = "done" /\ Len(spectrum) = Len(fftFrame) \div 2
        ELSE fftPc = "threw"

-----------------------------------------------------------------------------
(* BeatDetectionWorker: beat strengths, downbeats and the enhanced        *)
(* pipeline (part_002:104-167, 180-299).  Beat times are in 1/UPS s, raw  *)
(* strengths in 1/RmsScale, normalised strengths are rationals.           *)

\* a strength that is NaN (0 / 0, or a division by a NaN maximum)
NaNStrength == <<0, 0>>

\* part_002:112-124, the RMS of the frame around one beat
rawStrengthOf(samples, beatTime, rate) ==
    LET halfFrame   == 2048 \div 2
        sampleIndex == (beatTime * rate) \div UPS
        start       == Max(0, sampleIndex - halfFrame)
        end         == Min(Len(samples), sampleIndex + halfFrame)
    IN  IF end - start = 0 THEN NaNEnergy
        ELSE IF end - start < 0 THEN 0
        ELSE ISqrt((SumSquares(samples, start, end) * RmsScale * RmsScale)
                       \div (end - start))

\* part_002:129, Math.max(...rawStrengths); NaN if any strength is NaN
maxStrengthOf(raw) ==
    IF \E i \in 1..Len(raw) : raw[i] = NaNEnergy THEN NaNEnergy
    ELSE CHOOSE m \in {raw[i] : i \in 1..Len(raw)} :
             \A i \in 1..Len(raw) : raw[i] <= m

\* part_002:126-132, the normalisation of the raw strengths
normalizeStrengths(raw) ==
    IF Len(raw) = 0 THEN <<>>
    ELSE LET maxStrength == maxStrengthOf(raw)
         IN  IF maxStrength = 0 THEN [i \in 1..Len(raw) |-> Rat(0, 1)]
             ELSE [i \in 1..Len(raw) |->
                      IF maxStrength = NaNEnergy \/ raw[i] = NaNEnergy
                      THEN NaNStrength
                      ELSE Rat(raw[i], maxStrength)]

\* part_002:104-133
calculateBeatStrengths(samples, beats, rate) ==
    normalizeStrengths([i \in 1..Len(beats) |-> rawStrengthOf(samples, beats[i], rate)])

RECURSIVE LCMOf(_, _)
\* the least common denominator of strengths[i..]
LCMOf(strengths, i) ==
    IF i > Len(strengths) THEN 1
    ELSE LET rest == LCMOf(strengths, i + 1)
         IN  (strengths[i][2] * rest) \div GCD(strengths[i][2], rest)

\* part_002:146-154, strength > mean + 0.3 * std.  With n strengths p[j] / D
\* and a[j] = n * p[j] - sum(p), the mean is sum(p) / (n * D), the variance
\* sum(a[j]^2) / (n^3 * D^2), and the test is a[i] > 0 and
\* 100 * n * a[i]^2 > 9 * sum(a[j]^2); every comparison with NaN is false
isStrong(strengths, i) ==
    IF \E j \in 1..Len(strengths) : strengths[j] = NaNStrength THEN FALSE
    ELSE LET n     == Len(strengths)
             D     == LCMOf(strengths, 1)
             p     == [j \in 1..n |-> strengths[j][1] * (D \div strengths[j][2])]
             a     == [j \in 1..n |-> n * p[j] - SumRange(p, 0, n)]
             sumSq == SumRange([j \in 1..n |-> a[j] * a[j]], 0, n)
         IN  a[i + 1] > 0 /\ 100 * n * a[i + 1] * a[i + 1] > 9 * sumSq

RECURSIVE downbeatIndicesOfStrongOnly(_, _)
\* the indices of the strong beats only
downbeatIndicesOfStrongOnly(strengths, i) ==
    IF i >= Len(strengths) THEN <<>>
    ELSE IF isStrong(strengths, i)
    THEN <<i>> \o downbeatIndicesOfStrongOnly(strengths, i + 1)
    ELSE downbeatIndicesOfStrongOnly(strengths, i + 1)

RECURSIVE downbeatIndicesOf(_, _)
\* part_002:151-160, the indices kept by the forEach, from index i on
downbeatIndicesOf(strengths, i) ==
    IF i >= Len(strengths) THEN <<>>
    ELSE IF isStrong(strengths, i) \/ i % 4 = 0
    THEN <<i>> \o downbeatIndicesOf(strengths, i + 1)
    ELSE downbeatIndicesOf(strengths, i + 1)

\* part_002:162-164, the times of the indices that are beats
downbeatTimesOf(beats, indices) ==
    LET kept == SelectSeq(indices, LAMBDA i : i < Len(beats))
    IN  [k \in 1..Len(kept) |-> At(beats, kept[k])]

\* part_002:138-167
detectDownbeats(beats, strengths) ==
    IF Len(strengths) = 0
    THEN [downbeatIndices |-> <<>>, downbeatTimes |-> <<>>]
    ELSE LET indices == downbeatIndicesOf(strengths, 0)
         IN  [downbeatIndices |-> indices,
              downbeatTimes |-> downbeatTimesOf(beats, indices)]

\* the envelope on the 1/EScale grid of the section analyser's curve
energyCurveOf(env) == [k \in 1..Len(env) |-> (env[k][1] * EScale) \div env[k][2]]

\* the envelopes that the grid holds exactly
OnGrid(env) == \A k \in 1..Len(env) : (env[k][1] * EScale) % env[k][2] = 0

\* part_002:237, audioData.length / sampleRate in 1/UPS s
audioDurationOf(length, rate) == (length * UPS) \div rate

\* EnergyAnalyzer.ts:421-430, some frame makes computeMagnitudeSpectrum throw
drumsThrow(samples, mags) ==
    \E frame \in 0..(numFramesOf(Len(samples)) - 1) :
        computeMagnitudeSpectrum(
            SubSeq(samples, frame * HOP_SIZE + 1, frame * HOP_SIZE + FFT_SIZE),
            mags).threw

\* part_002:259-279, the result object
enhancedResult(beats, strengths, downbeats, env, secs, drums, phrases) ==
    [beatTimes |-> beats,
     downbeatIndices |-> downbeats.downbeatIndices,
     downbeatTimes |-> downbeats.downbeatTimes,
     barTimes |-> barTimesOf(beats, 0),
     tempo |-> tempoOf(beats),
     beatCount |-> Len(beats),
     barCount |-> Len(barTimesOf(beats, 0)),
     beatStrengths |-> strengths,
     drumPattern |-> drums,
     sections |-> secs,
     energyCurve |-> env,
     phraseBoundaries |-> phrases]

\* part_002:219-250, the stages after the beat tracker has returned beats
enhancedStages(samples, rate, beats, mags, strengths, env, bars) ==
    LET secs == analyzeSections(energyCurveOf(env), bars,
                                audioDurationOf(Len(samples), rate))
    IN  enhancedResult(beats, strengths, detectDownbeats(beats, strengths), env,
                       secs,
                       analyzeDrums(bandEnergiesOf(samples, rate, mags), rate, beats),
                       detectPhraseBoundaries(bars, secs))

\* part_002:180-280 with essentia initialised
analyzeBeatsEnhanced(samples, rate, beats, mags) ==
    enhancedStages(samples, rate, beats, mags,
                   calculateBeatStrengths(samples, beats, rate),
                   analyzeEnergy(samples, rate), barTimesOf(beats, 0))

\* part_002:283-299, the response that onmessage posts
workerResponse(samples, rate, beats, mags) ==
    IF drumsThrow(samples, mags)
    THEN [type |-> "error", error |-> "FFT size must be a power of 2"]
    ELSE [type |-> "result", data |-> analyzeBeatsEnhanced(samples, rate, beats, mags)]

-----------------------------------------------------------------------------
(* Specification SpecPipeline: the worker's pipeline on bounded waveforms *)
(* and on the beats that the tracker may return for them                  *)

\* longest short waveform, in samples
MaxPipeSamples == 3

\* the samples after the silence of the impulse waveform: one sample that
\* makes the frames from the twelfth on non-zero, then silence up to 0.2 s
\* in all (13 frames)
ImpulseTail == <<3>> \o Silence(4 * (44100 \div UPS) - 15 * HOP_SIZE)

\* waveforms with their sample rates: short ones, silence of 1 s and 5 s, and
\* the impulse; their envelopes and durations are exact on the model's grids
PipelineInputs ==
    {in \in [lead : {0}, audio : SeqsUpTo({0, 3, -4}, MaxPipeSamples),
             rate : {10, 20}] :
         OnGrid(analyzeEnergy(in.audio, in.rate))}
    \cup {[lead |-> 0, audio |-> <<>>, rate |-> 44100],
          [lead |-> 44100, audio |-> <<>>, rate |-> 44100],
          [lead |-> 5 * 44100, audio |-> <<>>, rate |-> 44100],
          [lead |-> 44100 \div UPS, audio |-> <<>>, rate |-> 44100],
          [lead |-> 15 * HOP_SIZE - 1, audio |-> ImpulseTail, rate |-> 44100]}

\* beat lists the tracker may return
PipelineBeats == {<<>>, <<0, 10>>, <<0, 10, 20, 30, 40>>}

InitPipeline ==
    /\ \E in \in PipelineInputs :
           leadSilence = in.lead /\ audioData = in.audio /\ sampleRate = in.rate
    /\ beatTimes \in PipelineBeats
    /\ fftMags \in MagChoices(FFT_SIZE \div 2)
    /\ beatResult = <<>>
    /\ beatPc = "input"
    /\ envelope = <<>> /\ energyPc = "idle"
    /\ fftFrame = <<>> /\ spectrum = <<>> /\ fftPc = "idle"
    /\ frameEnergy = <<>> /\ drumSampleRate = 0 /\ drumPattern = <<>> /\ drumPc = "idle"
    /\ SectionIdle /\ AvgIdle /\ PhraseIdle /\ ServiceIdle
    /\ UiIdle

\* part_002:283-299, self.onmessage
OnMessage ==
    /\ beatPc = "input"
    /\ beatResult' = workerResponse(waveformOf(leadSilence, audioData), sampleRate,
                                     beatTimes, fftMags)
    /\ beatPc' = "done"
    /\ UNCHANGED <<beatTimes, energyVars, drumVars>>
    /\ UNCHANGED <<sectionVars, avgVars, phraseVars, serviceVars, uiVars>>

NextPipeline == OnMessage

SpecPipeline == InitPipeline /\ [][NextPipeline]_vars

\* the drum pattern of the early return and of a run without onsets or beats
EmptyDrumPattern ==
    [kick |-> <<>>, snare |-> <<>>, hihat |-> <<>>, patternLength |-> Rat(0, 1)]

\* C13: for an empty waveform for which the tracker returned no beats, the
\* worker posts a result, not an error, with an empty envelope, an empty drum
\* pattern of patternLength 0, empty beatStrengths and downbeat arrays, and
\* exactly one 'unknown' section over [0, duration) with energy 0.5
DegenerateInputGivesFallbacks ==
    (beatPc = "done" /\ leadSilence = 0 /\ audioData = <<>> /\ beatTimes = <<>>) =>
        /\ beatResult.type = "result"
        /\ beatResult.data.energyCurve = <<>>
        /\ beatResult.data.drumPattern = EmptyDrumPattern
        /\ beatResult.data.beatStrengths = <<>>
        /\ beatResult.data.downbeatIndices = <<>>
        /\ beatResult.data.downbeatTimes = <<>>
        /\ beatResult.data.sections =
               <<[type |-> "unknown", startTime |-> 0,
                  endTime |-> audioDurationOf(0, sampleRate),
                  energy |-> Rat(EScale, 2)]>>

DegenerateInputWitness ==
    /\ beatPc = "done" /\ leadSilence = 0 /\ audioData = <<>> /\ beatTimes = <<>>
    /\ sampleRate = 44100
    /\ beatResult.type = "result"
    /\ Len(beatResult.data.sections) = 1

\* C15: for 5 s of silence at 44100 Hz the envelope has exactly 50 samples,
\* all 0, and with no beats the drum pattern has empty kick, snare and hi-hat
\* arrays and patternLength 0
SilenceGivesZeroEnvelopeAndNoDrums ==
    (beatPc = "done" /\ sampleRate = 44100 /\ leadSilence = 5 * 44100
         /\ audioData = <<>> /\ beatTimes = <<>>) =>
        /\ beatResult.type = "result"
        /\ Len(beatResult.data.energyCurve) = 50
        /\ \A k \in 1..50 : beatResult.data.energyCurve[k] = Rat(0, 1)
        /\ beatResult.data.drumPattern = EmptyDrumPattern

SilenceWitness ==
    /\ beatPc = "done" /\ sampleRate = 44100 /\ leadSilence = 5 * 44100
    /\ audioData = <<>> /\ beatTimes = <<>>
    /\ Len(beatResult.data.energyCurve) = 50
    /\ beatResult.data.drumPattern.kick = <<>>

-----------------------------------------------------------------------------
(* Boundary construction of analyzeSections, on the states of SpecSections *)

\* the envelope is no longer than the track: at most ceil(10 * duration)
\* samples, the length that analyzeEnergy gives the worker's envelope
DurationCoversCurve == Len(energyCurve) <= CeilIndex(audioDuration)

\* the list starts with 0, ends with the duration, holds the duration once
\* and is strictly increasing
EndsAtDurationIncreasing(b, duration) ==
    /\ Len(b) >= 2
    /\ b[1] = 0
    /\ b[Len(b)] = duration
    /\ Cardinality({i \in 1..Len(b) : b[i] = duration}) = 1
    /\ IsStrictlyIncreasing(b)

\* every boundary but the last lies MIN_SECTION_DURATION or more after the
\* one before it
AcceptedBoundariesSpaced(b) ==
    \A i \in 2..(Len(b) - 1) : b[i] - b[i - 1] >= MIN_SECTION_DURATION

barsStrictlyInside(bars, duration) ==
    LET picked == {i \in 1..(Len(bars) - 1) :
                      /\ i % barsPerSection = 0
                      /\ At(bars, i) > 0 /\ At(bars, i) < duration}
        RECURSIVE from(_)
        from(i) == IF i >= Len(bars) THEN <<>>
                   ELSE IF i \in picked THEN <<At(bars, i)>> \o from(i + 1)
                   ELSE from(i + 1)
    IN  from(0)

\* C18: the fallback changes the boundary list only when it is exactly
\* [0, duration] and barTimes is non-empty; it then injects exactly the bars
\* barTimes[i], i a positive multiple of 8, strictly inside (0, duration),
\* and the resulting list is sorted ascending
FallbackInjectsBarsInside ==
    (sectionPc = "done" /\ Len(energyCurve) > 0) =>
        IF boundariesBuilt = <<0, audioDuration>> /\ barTimes # <<>>
        THEN /\ sortedBoundaries =
                    SortAsc(boundariesBuilt \o barsStrictlyInside(barTimes, audioDuration))
             /\ IsAscending(sortedBoundaries)
        ELSE sortedBoundaries = boundariesBuilt

-----------------------------------------------------------------------------
(* Specification SpecHelpers: classifySection, snapToNearestBar and       *)
(* mergeSections, each called on bounded arguments                        *)

\* energies below, at and above MEDIUM (0.4) and HIGH (0.7)
ClassifyEnergies ==
    {Rat(0, 1), Rat(15, 2), Rat(8, 1), Rat(27, 2), Rat(14, 1), Rat(EScale, 1)}

\* energy changes below, at and above -0.2 and 0.25
ClassifyChanges == {Rat(-5, 1), Rat(-4, 1), Rat(0, 1), Rat(5, 1), Rat(6, 1)}

\* intervals that start before, just before, at and after 15 s, in tracks of
\* 15 s and 50 s, ending before, at and after 15 s from the track's end
ClassifyArgs ==
    {a \in [energy : ClassifyEnergies,
            startTime : {0, 299, 300, 600},
            endTime : {80, 380, 700, 701, 1000},
            totalDuration : {300, 1000},
            energyChange : ClassifyChanges] :
        a.startTime < a.endTime /\ a.endTime <= a.totalDuration}

\* longest bar list given to snapToNearestBar
MaxSnapBars == 4

\* the ascending lists of at most n values of S
RECURSIVE AscendingUpTo(_, _)
AscendingUpTo(S, n) ==
    IF n = 0 THEN {<<>>}
    ELSE LET shorter == AscendingUpTo(S, n - 1)
         IN  shorter \cup
             {q \in {Append(r, x) : r \in {p \in shorter : Len(p) = n - 1},
                                    x \in S} : IsAscending(q)}

\* bars and times at, between, midway between and more than 2 s from bars
SnapArgs ==
    [time : {0, 5, 20, 30, 45, 70, 120},
     barTimes : AscendingUpTo({0, 10, 30, 50, 90, 100}, MaxSnapBars)]

\* longest section list given to mergeSections
MaxMerge == 4

\* the boundaries of the intervals given to mergeSections, unequal in length
MergeTimes == [i \in 0..MaxMerge |-> i * i * MIN_SECTION_DURATION]

\* contiguous intervals of every type and energy pattern
MergeArgs ==
    {[i \in 1..Len(q) |->
         [type |-> q[i][1], energy |-> q[i][2],
          startTime |-> MergeTimes[i - 1], endTime |-> MergeTimes[i]]] :
     q \in SeqsUpTo({"verse", "chorus"} \X {Rat(4, 1), Rat(8, 1), Rat(16, 1)},
                    MaxMerge)}

\* number of 0.5 s blocks of the longest envelope given to detectEnergyChanges
MaxChangeBlocks == 6

\* envelopes of 0.5 s blocks, of 19, 20 and 21 samples, and one with a
\* change in every second; the thresholds 0.15 and 0.2
ChangeArgs ==
    [curve : {Blocks(l, 5) : l \in SeqsUpTo({2, 10, 16}, MaxChangeBlocks)}
                 \cup {[i \in 1..n |-> IF i <= 10 THEN 2 ELSE 16] : n \in 19..21}
                 \cup {[i \in 1..45 |-> IF ((i - 1) \div 10) % 2 = 0 THEN 2 ELSE 16]},
     threshold : {(15 * EScale) \div 100, (2 * EScale) \div 10}]

\* most beats given to detectDownbeats
MaxDownbeatBeats == 6

\* beats 0.35 s apart from 0.15 s on, with the strengths that
\* calculateBeatStrengths gives them for raw strengths 0, 0.3, 1 and NaN
DownbeatArgs ==
    {[beats |-> [i \in 1..Len(raw) |-> 3 + 7 * (i - 1)],
      strengths |-> normalizeStrengths(raw)] :
         raw \in SeqsUpTo({0, 30, 100, NaNEnergy}, MaxDownbeatBeats)}

InitHelpers ==
    /\ \/ fnName = "classifySection" /\ fnArgs \in ClassifyArgs
       \/ fnName = "snapToNearestBar" /\ fnArgs \in SnapArgs
       \/ fnName = "mergeSections" /\ fnArgs \in MergeArgs
       \/ fnName = "detectEnergyChanges" /\ fnArgs \in ChangeArgs
       \/ fnName = "detectDownbeats" /\ fnArgs \in DownbeatArgs
    /\ fnResult = <<>>
    /\ fnPc = "input"
    /\ energyCurve = <<>> /\ barTimes = <<>> /\ audioDuration = 0
    /\ sections = <<>> /\ sectionPc = "idle"
    /\ boundariesBuilt = <<>> /\ sortedBoundaries = <<>>
    /\ AvgIdle /\ PhraseIdle /\ EnergyIdle /\ DrumIdle /\ BeatIdle /\ ServiceIdle
    /\ UiIdle

\* what a call leaves alone
helperFrame ==
    /\ fnPc' = "done"
    /\ UNCHANGED <<fnName, fnArgs>>
    /\ UNCHANGED <<energyCurve, barTimes, audioDuration, sections, sectionPc,
                   boundariesBuilt, sortedBoundaries>>
    /\ UNCHANGED <<avgVars, phraseVars, energyVars, drumVars, beatVars, serviceVars, uiVars>>

ClassifySection ==
    /\ fnPc = "input" /\ fnName = "classifySection"
    /\ fnResult' = classifySection(fnArgs.energy, fnArgs.startTime, fnArgs.endTime,
                                   fnArgs.totalDuration, fnArgs.energyChange)
    /\ helperFrame

SnapToNearestBar ==
    /\ fnPc = "input" /\ fnName = "snapToNearestBar"
    /\ fnResult' = snapToNearestBar(fnArgs.time, fnArgs.barTimes)
    /\ helperFrame

MergeSections ==
    /\ fnPc = "input" /\ fnName = "mergeSections"
    /\ fnResult' = mergeSections(fnArgs)
    /\ helperFrame

DetectEnergyChanges ==
    /\ fnPc = "input" /\ fnName = "detectEnergyChanges"
    /\ fnResult' = detectEnergyChanges(fnArgs.curve, fnArgs.threshold)
    /\ helperFrame

DetectDownbeats ==
    /\ fnPc = "input" /\ fnName = "detectDownbeats"
    /\ fnResult' = detectDownbeats(fnArgs.beats, fnArgs.strengths)
    /\ helperFrame

NextHelpers ==
    \/ ClassifySection \/ SnapToNearestBar \/ MergeSections
    \/ DetectEnergyChanges \/ DetectDownbeats

SpecHelpers == InitHelpers /\ [][NextHelpers]_vars

\* the ladder's conditions on the arguments of a classifySection call
IsEarlyAndNotHigh(a) ==
    a.startTime < 15 * UPS /\ RLt(a.energy, Rat(7 * EScale, 10))
IsLateAndNotHigh(a) ==
    a.endTime > a.totalDuration - 15 * UPS /\ RLt(a.energy, Rat(7 * EScale, 10))
IsHighEnergy(a) == RLe(Rat(7 * EScale, 10), a.energy)
IsMediumEnergy(a) == RLe(Rat(4 * EScale, 10), a.energy)
IsBigRise(a) == RLt(Rat(25 * EScale, 100), a.energyChange)
IsBigFall(a) == RLt(a.energyChange, Rat(-2 * EScale, 10))

\* C16: classifySection returns intro if s < 15 and energy < 0.7; else outro
\* if e > duration - 15 and energy < 0.7; else, if energy >= 0.7, drop when
\* energyChange > 0.25 and chorus otherwise; else verse if energy >= 0.4;
\* else breakdown if energyChange < -0.2; else unknown.  Every interval with
\* energy >= 0.7 is drop or chorus, and every type is one of the seven
ClassifyFollowsLadder ==
    (fnPc = "done" /\ fnName = "classifySection") =>
        LET a == fnArgs
            edge == IsEarlyAndNotHigh(a) \/ IsLateAndNotHigh(a)
        IN  /\ fnResult \in SectionTypes
            /\ Cardinality(SectionTypes) = 7
            /\ fnResult = "intro" <=> IsEarlyAndNotHigh(a)
            /\ fnResult = "outro" <=> (~IsEarlyAndNotHigh(a) /\ IsLateAndNotHigh(a))
            /\ fnResult = "drop" <=> (IsHighEnergy(a) /\ IsBigRise(a))
            /\ fnResult = "chorus" <=> (IsHighEnergy(a) /\ ~IsBigRise(a))
            /\ fnResult = "verse" <=>
                   (~edge /\ ~IsHighEnergy(a) /\ IsMediumEnergy(a))
            /\ fnResult = "breakdown" <=>
                   (~edge /\ ~IsMediumEnergy(a) /\ IsBigFall(a))
            /\ fnResult = "unknown" <=>
                   (~edge /\ ~IsMediumEnergy(a) /\ ~IsBigFall(a))

\* a quiet interval away from both edges after a big fall: the last rungs
ClassifyWitness ==
    /\ fnPc = "done" /\ fnName = "classifySection"
    /\ fnResult = "breakdown"
    /\ fnArgs.startTime >= 15 * UPS
    /\ fnArgs.endTime <= fnArgs.totalDuration - 15 * UPS

\* the full scan: the bar with minimal |time - bar|, the earliest such bar
\* when several are at that distance
nearestBarByFullScan(time, bars) ==
    LET i == CHOOSE k \in 1..Len(bars) :
                 /\ \A j \in 1..Len(bars) : Abs(time - bars[k]) <= Abs(time - bars[j])
                 /\ \A j \in 1..(k - 1) : Abs(time - bars[j]) > Abs(time - bars[k])
    IN  bars[i]

\* C19: for ascending barTimes, snapToNearestBar with its early exit returns
\* what the full scan returns (the earliest bar on ties), and it returns the
\* time unchanged when barTimes is empty
EarlyExitEqualsFullScan ==
    (fnPc = "done" /\ fnName = "snapToNearestBar") =>
        IF fnArgs.barTimes = <<>> THEN fnResult = fnArgs.time
        ELSE fnResult = nearestBarByFullScan(fnArgs.time, fnArgs.barTimes)

\* the loop left early, bars remained unscanned, and two bars were equally
\* near the time
EarlyExitWitness ==
    /\ fnPc = "done" /\ fnName = "snapToNearestBar"
    /\ \E k \in 1..(Len(fnArgs.barTimes) - 1) :
           fnArgs.barTimes[k] > fnArgs.time + 2 * UPS
    /\ \E j, k \in 1..Len(fnArgs.barTimes) :
           /\ fnArgs.barTimes[j] < fnArgs.barTimes[k]
           /\ fnArgs.time - fnArgs.barTimes[j] = fnArgs.barTimes[k] - fnArgs.time
           /\ fnResult = fnArgs.barTimes[j]

\* the first indices of the maximal runs of consecutive same-type intervals
runStarts(secs) ==
    {i \in 1..Len(secs) : i = 1 \/ secs[i - 1].type # secs[i].type}

\* the last index of the run that starts at i
runEnd(secs, i) ==
    CHOOSE j \in i..Len(secs) :
        /\ \A k \in i..j : secs[k].type = secs[i].type
        /\ j = Len(secs) \/ secs[j + 1].type # secs[i].type

RECURSIVE runningAverage(_, _, _)
\* (...((e[i] + e[i+1]) / 2 + e[i+2]) / 2 ... + e[j]) / 2
runningAverage(secs, i, j) ==
    IF j = i THEN secs[i].energy
    ELSE RHalfSum(runningAverage(secs, i, j - 1), secs[j].energy)

RECURSIVE weightedSum(_, _, _)
\* the sum over k in i..j of (endTime - startTime) * energy
weightedSum(secs, i, j) ==
    IF i > j THEN Rat(0, 1)
    ELSE LET rest == weightedSum(secs, i + 1, j)
             d == secs[i].endTime - secs[i].startTime
         IN  Rat(rest[1] * secs[i].energy[2] + d * secs[i].energy[1] * rest[2],
                 rest[2] * secs[i].energy[2])

\* the mean of the energies e[i..j] weighted by the intervals' durations
weightedMean(secs, i, j) ==
    Rat(weightedSum(secs, i, j)[1],
        weightedSum(secs, i, j)[2] * (secs[j].endTime - secs[i].startTime))

\* C20: mergeSections returns one section per maximal run of consecutive
\* same-type intervals, from the run's first startTime to its last endTime,
\* of the run's type, with the running two-term average of the run's
\* energies; an interval that differs in type from its neighbours is unchanged
MergeCoalescesRuns ==
    (fnPc = "done" /\ fnName = "mergeSections") =>
        /\ Len(fnResult) = Cardinality(runStarts(fnArgs))
        /\ \A i \in runStarts(fnArgs) :
               LET k == Cardinality({s \in runStarts(fnArgs) : s <= i})
                   j == runEnd(fnArgs, i)
               IN  /\ fnResult[k].type = fnArgs[i].type
                   /\ fnResult[k].startTime = fnArgs[i].startTime
                   /\ fnResult[k].endTime = fnArgs[j].endTime
                   /\ fnResult[k].energy = runningAverage(fnArgs, i, j)
                   /\ j = i => fnResult[k] = fnArgs[i]

\* a run of three intervals whose running average differs from their
\* duration-weighted mean, next to an interval of another type
MergeWitness ==
    /\ fnPc = "done" /\ fnName = "mergeSections"
    /\ Len(fnArgs) = 4 /\ Len(fnResult) = 2
    /\ runEnd(fnArgs, 1) = 3
    /\ fnResult[1].energy = runningAverage(fnArgs, 1, 3)
    /\ ~REq(fnResult[1].energy, weightedMean(fnArgs, 1, 3))
    /\ fnResult[2] = fnArgs[4]

\* (afterSum - beforeSum) at index i: lookWindow times the delta
deltaTimesWindow(curve, i) ==
    SumRange(curve, i, i + lookWindow) - SumRange(curve, i - lookWindow, i)

\* C21: detectEnergyChanges emits exactly the greedy selection over the
\* interior indices lookWindow <= i < len - lookWindow: an event at i / 10 with
\* delta = mean(env[i..i+9]) - mean(env[i-10..i-1]) for each i with
\* |delta| >= threshold that is 1.0 s or more after the events emitted before
\* it.  Times are strictly increasing, consecutive events are 1.0 s or more
\* apart, and an envelope of 20 or fewer samples gives no event
ChangesAreGreedySelection ==
    (fnPc = "done" /\ fnName = "detectEnergyChanges") =>
        LET curve    == fnArgs.curve
            interior == lookWindow..(Len(curve) - lookWindow - 1)
            emitted  == {fnResult[k].time : k \in 1..Len(fnResult)}
            big(i)   == Abs(deltaTimesWindow(curve, i)) >= fnArgs.threshold * lookWindow
        IN  /\ emitted \subseteq {i * UnitsPerSample : i \in interior}
            /\ \A i \in interior :
                   (i * UnitsPerSample \in emitted) <=>
                       /\ big(i)
                       /\ \A t \in emitted :
                              t < i * UnitsPerSample => i * UnitsPerSample - t >= UPS
            /\ \A k \in 1..Len(fnResult) :
                   /\ fnResult[k].delta =
                          deltaTimesWindow(curve, fnResult[k].time \div UnitsPerSample)
                   /\ Abs(fnResult[k].delta) >= fnArgs.threshold * lookWindow
            /\ \A k \in 1..(Len(fnResult) - 1) :
                   fnResult[k + 1].time - fnResult[k].time >= UPS
            /\ Len(curve) <= 2 * lookWindow => fnResult = <<>>

\* two events, and between them an index with a big delta that was suppressed
ChangesWitness ==
    /\ fnPc = "done" /\ fnName = "detectEnergyChanges"
    /\ Len(fnResult) >= 2
    /\ \E i \in lookWindow..(Len(fnArgs.curve) - lookWindow - 1) :
           /\ Abs(deltaTimesWindow(fnArgs.curve, i)) >= fnArgs.threshold * lookWindow
           /\ \A k \in 1..Len(fnResult) : fnResult[k].time # i * UnitsPerSample

\* C22: for every frame index i >= 10 of a band's energy sequence, up to and
\* including the last frame, an onset is accepted at frame i if and only if
\* energy[i] > threshold * mean(energy[i-10..i-1]) and energy[i] > energy[i-1]
\* and the frame time is at least the band's minimum spacing after the last
\* accepted hit; no onset is reported in the first 10 frames
OnsetAtEveryFramePastWarmUp ==
    drumPc = "done" =>
        \A band \in Bands :
            LET energy     == frameEnergy[band]
                frameTimes == frameTimesOf(Len(energy))
                accepted   == {drumPattern[band][k] : k \in 1..Len(drumPattern[band])}
            IN  /\ \A i \in windowSize..(Len(energy) - 1) :
                       (At(frameTimes, i) \in accepted) <=>
                           /\ isOnset(energy, ONSET_THRESHOLDS[band], i)
                           /\ \A t \in accepted :
                                  t < At(frameTimes, i) =>
                                      At(frameTimes, i) - t
                                          >= minIntervalOf(band, drumSampleRate)
                /\ \A i \in 0..(Min(windowSize, Len(energy)) - 1) :
                       At(frameTimes, i) \notin accepted

\* C23: when the waveform has at least one frame (FFT_SIZE samples) and two or
\* more beats are supplied, patternLength is 16 times the mean inter-beat
\* interval, 16 * (last - first) / (n - 1); it is 0 with fewer than two beats;
\* and when the waveform is shorter than one frame the result is three empty
\* arrays with patternLength 0 and no spectrum is computed
PatternLengthIsSixteenBeats ==
    beatPc = "done" =>
        LET length == leadSilence + Len(audioData)
            n      == Len(beatTimes)
        IN  /\ (length >= FFT_SIZE /\ n >= 2 /\ beatResult.type = "result") =>
                   beatResult.data.drumPattern.patternLength =
                       Rat(16 * (beatTimes[n] - beatTimes[1]), n - 1)
            /\ (n < 2 /\ beatResult.type = "result") =>
                   beatResult.data.drumPattern.patternLength = Rat(0, 1)
            /\ length < FFT_SIZE =>
                   /\ beatResult.type = "result"
                   /\ beatResult.data.drumPattern = EmptyDrumPattern

\* C24: detectDownbeats marks beat i as a downbeat if and only if
\* strengths[i] > mean(strengths) + 0.3 * populationStdDev(strengths) or i is
\* a multiple of 4; downbeatIndices is strictly increasing and holds every
\* multiple of 4 below the beat count; downbeatTimes is parallel to it; and
\* an empty strength array gives two empty arrays
DownbeatsAreStrongOrBarPositions ==
    (fnPc = "done" /\ fnName = "detectDownbeats") =>
        LET strengths == fnArgs.strengths
            indices   == fnResult.downbeatIndices
            times     == fnResult.downbeatTimes
            marked    == {indices[k] : k \in 1..Len(indices)}
        IN  /\ marked \subseteq 0..(Len(strengths) - 1)
            /\ \A i \in 0..(Len(strengths) - 1) :
                   (i \in marked) <=> (isStrong(strengths, i) \/ i % 4 = 0)
            /\ IsStrictlyIncreasing(indices)
            /\ \A i \in 0..(Len(strengths) - 1) : i % 4 = 0 => i \in marked
            /\ Len(times) = Len(indices)
            /\ \A k \in 1..Len(indices) : times[k] = At(fnArgs.beats, indices[k])
            /\ Len(strengths) = 0 => (indices = <<>> /\ times = <<>>)

\* a strong beat off the bar positions is marked and a weak one is not
DownbeatsWitness ==
    /\ fnPc = "done" /\ fnName = "detectDownbeats"
    /\ \E k \in 1..Len(fnResult.downbeatIndices) : fnResult.downbeatIndices[k] % 4 # 0
    /\ Len(fnResult.downbeatIndices) < Len(fnArgs.strengths)
    /\ Len(fnArgs.strengths) > 4

\* C25: the content of detectPhraseBoundaries' result: every section start
\* is in it; barTimes[i] with i a multiple of 4 is in it unless it is within
\* 2.0 s of a boundary collected before it (a section start or an earlier
\* accepted bar); and nothing else is in it, so a bar whose index is not a
\* multiple of 4 is in it only as the time of a section start or of a 4th bar
PhraseBoundariesContent ==
    phrasePc = "done" =>
        LET result   == {phraseBoundaries[k] : k \in 1..Len(phraseBoundaries)}
            starts   == {phraseSections[k].startTime : k \in 1..Len(phraseSections)}
            bar(i)   == At(phraseBarTimes, i)
            fourth   == {i \in 0..(Len(phraseBarTimes) - 1) : i % BARS_PER_PHRASE = 0}
            before(i) == starts \cup {bar(j) : j \in {f \in fourth : f < i /\ bar(f) \in result}}
            tooClose(i) == \E p \in before(i) : Abs(p - bar(i)) < 2 * UPS
        IN  /\ starts \subseteq result
            /\ \A i \in fourth :
                   /\ ~tooClose(i) => bar(i) \in result
                   /\ (tooClose(i) /\ bar(i) \in result) => bar(i) \in before(i)
            /\ \A t \in result :
                   t \in starts \/ \E i \in fourth : bar(i) = t /\ ~tooClose(i)
            /\ \A j \in 0..(Len(phraseBarTimes) - 1) :
                   (j % BARS_PER_PHRASE # 0 /\ bar(j) \in result) =>
                       bar(j) \in starts \/ \E i \in fourth : bar(i) = bar(j)
            /\ Len(phraseBoundaries) = Cardinality(result)

\* a call in which a 4th bar was accepted, another 4th bar was dropped as too
\* close, and a bar off the 4-bar grid is absent from the result
PhraseContentWitness ==
    /\ phrasePc = "done"
    /\ Len(phraseSections) >= 2
    /\ LET result == {phraseBoundaries[k] : k \in 1..Len(phraseBoundaries)}
           starts == {phraseSections[k].startTime : k \in 1..Len(phraseSections)}
       IN  /\ \E i \in 0..(Len(phraseBarTimes) - 1) :
                  i % BARS_PER_PHRASE = 0 /\ At(phraseBarTimes, i) \in result \ starts
           /\ \E i \in 0..(Len(phraseBarTimes) - 1) :
                  i % BARS_PER_PHRASE = 0 /\ At(phraseBarTimes, i) \notin result
           /\ \E j \in 0..(Len(phraseBarTimes) - 1) :
                  j % BARS_PER_PHRASE # 0 /\ At(phraseBarTimes, j) \notin result

-----------------------------------------------------------------------------
(* Specification SpecCorrections: the useBeatCorrections hook for one track, *)
(* its four operations called in any order.  Times are in 1/100 s; the id   *)
(* that generateId returns is the number of the call.                       *)

\* most ids that generateId hands out
MaxCorrIds == 3

\* times at which a correction is added or to which one is dragged
CorrTimes == {0, 3, 5, 8, 20}

\* useBeatCorrections.ts:84, 0.05 s
DuplicateWindow == 5

RECURSIVE insertByTime(_, _)
\* where a stable sort by time puts c behind a sorted list
insertByTime(sorted, c) ==
    IF sorted = <<>> THEN <<c>>
    ELSE IF sorted[Len(sorted)].time <= c.time THEN Append(sorted, c)
    ELSE Append(insertByTime(SubSeq(sorted, 1, Len(sorted) - 1), c),
                sorted[Len(sorted)])

RECURSIVE sortByTime(_)
\* useBeatCorrections.ts:87,99, .sort((a, b) => a.time - b.time), stable
sortByTime(list) ==
    IF list = <<>> THEN <<>>
    ELSE insertByTime(sortByTime(SubSeq(list, 1, Len(list) - 1)), list[Len(list)])

\* useBeatCorrections.ts:84
isDuplicate(prev, time) ==
    \E k \in 1..Len(prev) : Abs(prev[k].time - time) < DuplicateWindow

\* addCorrection's updater without the sort
addCorrectionUnsorted(prev, time, id) ==
    IF isDuplicate(prev, time) THEN prev
    ELSE Append(prev, [time |-> time, id |-> id])

\* useBeatCorrections.ts:82-88, the updater of addCorrection
addCorrection(prev, time, id) ==
    IF isDuplicate(prev, time) THEN prev
    ELSE sortByTime(Append(prev, [time |-> time, id |-> id]))

\* useBeatCorrections.ts:92
removeCorrection(prev, id) == SelectSeq(prev, LAMBDA c : c.id # id)

\* useBeatCorrections.ts:96-100
updateCorrection(prev, id, newTime) ==
    sortByTime([k \in 1..Len(prev) |->
                   IF prev[k].id = id THEN [prev[k] EXCEPT !.time = newTime]
                   ELSE prev[k]])

InitCorrections ==
    /\ CorrectionsIdle /\ AppIdle
    /\ SectionIdle /\ AvgIdle /\ PhraseIdle /\ EnergyIdle /\ DrumIdle /\ BeatIdle
    /\ ServiceIdle

\* what an operation of the hook leaves alone
correctionsFrame ==
    /\ corrPrev' = corrections
    /\ UNCHANGED <<appVars, serviceVars, otherFnVars>>

AddCorrection ==
    \E time \in CorrTimes :
        /\ idsMade < MaxCorrIds
        /\ corrections' = addCorrection(corrections, time, idsMade + 1)
        /\ idsMade' = IF isDuplicate(corrections, time) THEN idsMade ELSE idsMade + 1
        /\ corrOp' = "addCorrection"
        /\ corrArg' = [time |-> time]
        /\ correctionsFrame

RemoveCorrection ==
    \E id \in 1..idsMade :
        /\ corrections' = removeCorrection(corrections, id)
        /\ corrOp' = "removeCorrection"
        /\ corrArg' = [id |-> id]
        /\ UNCHANGED idsMade
        /\ correctionsFrame

\* also BeatVisualizerWaveform's update-end handler (part_003:300-305)
UpdateCorrection ==
    \E id \in 1..idsMade, newTime \in CorrTimes :
        /\ corrections' = updateCorrection(corrections, id, newTime)
        /\ corrOp' = "updateCorrection"
        /\ corrArg' = [id |-> id, newTime |-> newTime]
        /\ UNCHANGED idsMade
        /\ correctionsFrame

ClearCorrections ==
    /\ corrections' = <<>>
    /\ corrOp' = "clearCorrections"
    /\ corrArg' = <<>>
    /\ UNCHANGED idsMade
    /\ correctionsFrame

NextCorrections ==
    AddCorrection \/ RemoveCorrection \/ UpdateCorrection \/ ClearCorrections

SpecCorrections == InitCorrections /\ [][NextCorrections]_vars

\* the corrections are in ascending order of time
SortedByTime(list) ==
    \A k \in 1..(Len(list) - 1) : list[k].time <= list[k + 1].time

\* C26: addCorrection(time) leaves the list unchanged when an existing
\* correction is within 50 ms of time; otherwise it adds exactly one
\* correction at that time with a fresh id, leaves the existing corrections
\* unchanged, and the resulting list is sorted ascending by time
AddCorrectionAddsOneOrNothing ==
    corrOp = "addCorrection" =>
        LET before == {corrPrev[k] : k \in 1..Len(corrPrev)}
            after  == {corrections[k] : k \in 1..Len(corrections)}
        IN  IF \E c \in before : Abs(c.time - corrArg.time) < DuplicateWindow
            THEN corrections = corrPrev
            ELSE /\ Len(corrections) = Len(corrPrev) + 1
                 /\ before \subseteq after
                 /\ \E c \in after \ before :
                        /\ c.time = corrArg.time
                        /\ \A p \in before : p.id # c.id
                        /\ after = before \cup {c}
                 /\ SortedByTime(corrections)
                 /\ \A i, j \in 1..Len(corrPrev) :
                        i < j => \E a, b \in 1..Len(corrections) :
                                     /\ a < b
                                     /\ corrections[a] = corrPrev[i]
                                     /\ corrections[b] = corrPrev[j]

\* the third id was given to a correction added between two others
AddCorrectionWitness ==
    /\ corrOp = "addCorrection"
    /\ Len(corrections) = 3 /\ Len(corrPrev) = 2
    /\ corrections[2].time = corrArg.time
    /\ idsMade = 3

\* C30: starting from an empty list, after any sequence of addCorrection,
\* removeCorrection, updateCorrection and clearCorrections, no two corrections
\* in the list are less than 50 ms apart
NoTwoCorrectionsWithin50ms ==
    \A i, j \in 1..Len(corrections) :
        i # j => Abs(corrections[i].time - corrections[j].time) >= DuplicateWindow

\* C27: whenever the duration is 4.0 s or more, every section returned by
\* analyzeSections lasts at least MIN_SECTION_DURATION, for any envelope and
\* any ascending barTimes, the sections of the 8-bar fallback and of the tail
\* overwrite included
SectionsLastMinDuration ==
    (sectionPc = "done" /\ audioDuration >= MIN_SECTION_DURATION) =>
        \A k \in 1..Len(sections) :
            sections[k].endTime - sections[k].startTime >= MIN_SECTION_DURATION

-----------------------------------------------------------------------------
(* Specification SpecApp: the App component's source selection and its      *)
(* analysis run.  A source is a number: k for the k-th object URL that      *)
(* URL.createObjectURL returns, and the members of CustomUrls for the URLs  *)
(* typed into the input.  beatDetectionService.analyzeBeatsEnhanced is the  *)
(* awaited call: it settles, with the result of the source it was given or  *)
(* with an error, in a later step.                                          *)

\* most files selected
MaxBlobs == 2

\* URLs typed into the input
CustomUrls == {11, 12}

\* progress values the service reports
ProgressValues == {50, 100}

\* positions sought from the section timeline
SeekTimes == {0, 5}

InitApp ==
    /\ AppIdle /\ CorrectionsIdle
    /\ SectionIdle /\ AvgIdle /\ PhraseIdle /\ EnergyIdle /\ DrumIdle /\ BeatIdle
    /\ ServiceIdle

\* what a handler of the App leaves alone
appFrame == UNCHANGED <<corrVars, serviceVars, otherFnVars>>

\* useBeatCorrections.ts:177-190 (handleFileInputChange and handleDrop call it)
HandleFileSelect ==
    /\ blobsMade < MaxBlobs
    /\ blobsMade' = blobsMade + 1
    /\ audioUrl' = blobsMade + 1
    /\ audioFileName' = blobsMade + 1
    /\ analysis' = NoSource
    /\ currentTime' = 0
    /\ isPlaying' = FALSE
    /\ analysisError' = ""
    /\ UNCHANGED <<customUrl, isAnalyzing, analysisProgress, pendingRun>>
    /\ appFrame

\* useBeatCorrections.ts:342, the input's onChange
SetCustomUrl ==
    /\ \E text \in CustomUrls \cup {NoSource} : customUrl' = text
    /\ UNCHANGED <<audioUrl, audioFileName, analysis, isAnalyzing, analysisProgress,
                   analysisError, currentTime, isPlaying, pendingRun, blobsMade>>
    /\ appFrame

\* useBeatCorrections.ts:222-236
HandleCustomUrlSubmit ==
    /\ customUrl # NoSource
    /\ audioUrl' = customUrl
    /\ audioFileName' = NoSource
    /\ analysis' = NoSource
    /\ currentTime' = 0
    /\ isPlaying' = FALSE
    /\ analysisError' = ""
    /\ UNCHANGED <<customUrl, isAnalyzing, analysisProgress, pendingRun, blobsMade>>
    /\ appFrame

\* useBeatCorrections.ts:239-251, runAnalysis up to the await; the button is
\* rendered with a source only and disabled while isAnalyzing (363-368)
RunAnalysis ==
    /\ audioUrl # NoSource
    /\ ~isAnalyzing
    /\ isAnalyzing' = TRUE
    /\ analysisProgress' = 0
    /\ analysisError' = ""
    /\ analysis' = NoSource
    /\ pendingRun' = audioUrl
    /\ UNCHANGED <<audioUrl, audioFileName, customUrl, currentTime, isPlaying,
                   blobsMade>>
    /\ appFrame

\* useBeatCorrections.ts:250, the progress callback
OnProgress ==
    /\ pendingRun # NoSource
    /\ \E progress \in ProgressValues : analysisProgress' = progress
    /\ UNCHANGED <<audioUrl, audioFileName, customUrl, analysis, isAnalyzing,
                   analysisError, currentTime, isPlaying, pendingRun, blobsMade>>
    /\ appFrame

\* useBeatCorrections.ts:252 and 257-259, the call resolved
AnalysisResolved ==
    /\ pendingRun # NoSource
    /\ analysis' = pendingRun
    /\ isAnalyzing' = FALSE
    /\ pendingRun' = NoSource
    /\ UNCHANGED <<audioUrl, audioFileName, customUrl, analysisProgress,
                   analysisError, currentTime, isPlaying, blobsMade>>
    /\ appFrame

\* useBeatCorrections.ts:253-259, the call rejected
AnalysisRejected ==
    /\ pendingRun # NoSource
    /\ analysisError' = "Analysis failed"
    /\ isAnalyzing' = FALSE
    /\ pendingRun' = NoSource
    /\ UNCHANGED <<audioUrl, audioFileName, customUrl, analysis, analysisProgress,
                   currentTime, isPlaying, blobsMade>>
    /\ appFrame

\* useBeatCorrections.ts:263-265
HandlePlayPause ==
    /\ audioUrl # NoSource
    /\ isPlaying' = ~isPlaying
    /\ UNCHANGED <<audioUrl, audioFileName, customUrl, analysis, isAnalyzing,
                   analysisProgress, analysisError, currentTime, pendingRun,
                   blobsMade>>
    /\ appFrame

\* useBeatCorrections.ts:268-270, from the section timeline of an analysis
HandleSeek ==
    /\ analysis # NoSource
    /\ \E time \in SeekTimes : currentTime' = time
    /\ UNCHANGED <<audioUrl, audioFileName, customUrl, analysis, isAnalyzing,
                   analysisProgress, analysisError, isPlaying, pendingRun,
                   blobsMade>>
    /\ appFrame

NextApp ==
    \/ HandleFileSelect \/ SetCustomUrl \/ HandleCustomUrlSubmit
    \/ RunAnalysis \/ OnProgress \/ AnalysisResolved \/ AnalysisRejected
    \/ HandlePlayPause \/ HandleSeek

SpecApp == InitApp /\ [][NextApp]_vars

\* C28: the analysis held in the App's state always belongs to the selected
\* audio source: when another file or URL is selected while an analysis is
\* in flight, the result of the earlier analysis is never stored as the
\* analysis of the new source
AnalysisBelongsToSelectedSource ==
    analysis # NoSource => analysis = audioUrl

\* C29: each analyzeBeatsEnhanced call's promise settles at most once, and
\* when it has settled (resolved on 'result', rejected on an 'error' message
\* or on a worker error event) the message listener and the error listener
\* that the call registered have been removed from the shared worker, so the
\* registered listener pairs are those of the runs still in flight at the
\* worker
ListenersRemovedWhenSettled ==
    LET onMessage == {msgListeners[k] : k \in 1..Len(msgListeners)}
        onError   == {errListeners[k] : k \in 1..Len(errListeners)}
        inFlight  == {r \in Runs : callPc[r] = "waiting"}
    IN  /\ \A r \in Runs :
               /\ settleCount[r] <= 1
               /\ settleCount[r] = 1 => (r \notin onMessage /\ r \notin onError)
               /\ callPc[r] = "resolved" => settleCount[r] = 1
        /\ onMessage = inFlight /\ onError = inFlight
        /\ Len(msgListeners) = Cardinality(inFlight)
        /\ Len(errListeners) = Cardinality(inFlight)

\* one run has settled on the worker's message and another is in flight
ListenersWitness ==
    \E r, q \in Runs :
        /\ settleCount[r] = 1 /\ callPc[r] = "resolved"
        /\ callPc[q] = "waiting"
        /\ msgListeners = <<q>> /\ errListeners = <<q>>

====
